---------------------------- MODULE Spec2Model ----------------------------
(***************************************************************************)
(* Energy monitor front end: the compare page and the desktop dashboard    *)
(* (first and second closure of static/compare.js) and the mobile          *)
(* dashboard.                                                              *)
(*                                                                         *)
(* Units.  Timestamps are milliseconds, xVals are seconds, power is watts. *)
(* Cumulative energy is held in thousandths of a kWh (KwhScale per kWh) so *)
(* that the arithmetic of the code stays exact in integers; money is held  *)
(* in ten-thousandths per kWh (CostScale).  A formatted number (toFixed)   *)
(* is held as the integer it prints with the decimal point removed.        *)
(***************************************************************************)
EXTENDS Integers, Sequences, FiniteSets, Bags, TLC

VARIABLES desk, mob, env, cmp

vars == <<desk, mob, env, cmp>>

(***************************************************************************)
(* Values and arithmetic                                                   *)
(***************************************************************************)

\* JavaScript null / undefined, and the "–" a formatter prints for it.
NULL == 0 - 1000000

KwhScale == 1000

CostScale == 10000

Max(a, b) == IF a >= b THEN a ELSE b

Min(a, b) == IF a <= b THEN a ELSE b

Abs(a) == IF a < 0 THEN 0 - a ELSE a

Last(s) == s[Len(s)]

\* n / d rounded to the nearest integer, a tie going away from zero, as
\* Number.prototype.toFixed rounds the magnitude and then puts the sign back.
RoundDiv(n, d) ==
  LET m == Abs(n)
      q == (m \div d) + (IF 2 * (m % d) >= d THEN 1 ELSE 0)
  IN IF n < 0 THEN 0 - q ELSE q

\* JavaScript truthiness of a number-or-null: null, undefined and 0 are falsy.
Truthy(v) == v # NULL /\ v # 0

(***************************************************************************)
(* Bounds of the model                                                     *)
(***************************************************************************)

\* longest response (rows) the exhaustive series check enumerates
MaxRows == 2

\* longest response (rows) of the checks of the two energy-used paths
MaxSamples == 3

\* most chart loads the mobile page keeps in flight in the model
MaxInFlight == 2

\* most loadInitialData calls the mobile page keeps in flight in the model
MaxInitialLoads == 1

(***************************************************************************)
(* Readings delivered by GET readings                                      *)
(***************************************************************************)

Row(t, p, e) == [t |-> t, p |-> p, e |-> e]

\* timestamps (ms), power (W) and cumulative energy for the exhaustive check
SeriesTimes == {1000, 1500, 2000, 3000}

SeriesPowers == {NULL, 0, 100}

SeriesEnergies == {NULL, 1, 3}

SeriesRowSet == [t : SeriesTimes, p : SeriesPowers, e : SeriesEnergies]

\* the service delivers rows in ascending (non-decreasing) time order
Ascending(rows) == \A i \in 1..(Len(rows) - 1) : rows[i].t <= rows[i + 1].t

RowSeqs(n) == UNION {[1..k -> SeriesRowSet] : k \in 0..n}

AllRows == {rows \in RowSeqs(MaxRows) : Ascending(rows)}

(***************************************************************************)
(* Desktop dashboard: series construction in fetchReadings                 *)
(***************************************************************************)

\* rows.map((r) => [r.t, r.p])
Mapped(rows) == [i \in 1..Len(rows) |-> <<rows[i].t, rows[i].p>>]

\* mapped.every((pt) => pt[1] === null || pt[1] === undefined)
AllPowerNull(mapped) == \A i \in 1..Len(mapped) : mapped[i][2] = NULL

\* the guard of the derivation loop for the pair (a, b)
PairDerivable(a, b) == a.e # NULL /\ b.e # NULL /\ b.t > a.t

\* variant of DerivedWatts without the clamp at 0
DerivedWatts_unclamped(a, b) == ((b.e - a.e) * 3600000) \div (b.t - a.t)

\* Math.max(0, (dE_kWh * 3600000000) / dt_ms), with dE in 1/KwhScale kWh
DerivedWatts(a, b) == Max(0, ((b.e - a.e) * 3600000) \div (b.t - a.t))

RECURSIVE DerivedFrom(_, _)
DerivedFrom(rows, i) ==
  IF i > Len(rows) THEN <<>>
  ELSE (IF PairDerivable(rows[i - 1], rows[i])
          THEN <<(<<rows[i].t, DerivedWatts(rows[i - 1], rows[i])>>)>>
          ELSE <<>>) \o DerivedFrom(rows, i + 1)

\* the loop for (let i = 1; i < rows.length; i++)
Derived(rows) == DerivedFrom(rows, 2)

\* variant of UsedDerived that replaces the raw series even by no points
UsedDerived_always(rows) ==
  /\ Len(rows) > 0
  /\ AllPowerNull(Mapped(rows))

\* usedDerived
UsedDerived(rows) ==
  /\ Len(rows) > 0
  /\ AllPowerNull(Mapped(rows))
  /\ Len(Derived(rows)) > 0

\* the value of mapped that is assigned to data
SeriesData(rows) == IF UsedDerived(rows) THEN Derived(rows) ELSE Mapped(rows)

\* mapped.map((m) => Math.floor(m[0] / 1000))
XValsOf(mapped) == [i \in 1..Len(mapped) |-> mapped[i][1] \div 1000]

\* mapped.map((m) => m[1])
YValsOf(mapped) == [i \in 1..Len(mapped) |-> mapped[i][2]]

\* rows.map((r) => r.e ?? null)
EValsOf(rows) == [i \in 1..Len(rows) |-> rows[i].e]

(***************************************************************************)
(* Desktop dashboard: state                                                *)
(***************************************************************************)

\* the stat-* fields as cleared by clearSelection
NoStats ==
  [energy |-> NULL, cost |-> NULL, avg |-> NULL, max |-> NULL, min |-> NULL,
   count |-> NULL]

\* let selection = { start: null, end: null }
NoSelection == [start |-> NULL, end |-> NULL]

\* u.scales.x before any data was set
NoScale == [min |-> NULL, max |-> NULL]

\* const pointerSelect = { active: false, pointerId: null, startPx: null,
\* startMs: null }
NoPointerSelect ==
  [active |-> FALSE, pointerId |-> NULL, startPx |-> NULL, startMs |-> NULL]

\* hover-time, hover-total-energy and hover-power showing nothing
NoHover == [time |-> NULL, energy |-> NULL, power |-> NULL]

\* u.select after setSelect({ left: 0, top: 0, width: 0, height: 0 })
NoOverlay == [left |-> 0, width |-> 0]

\* let costPerKwh = 0.3102
DefaultCost == 3102

\* texts the cost_per_kwh item of localStorage may hold; <<>> when absent
StoredCosts == {<<>>, <<"0.25">>}

\* parseFloat of a stored text, NULL standing for NaN
ParseFloat(text) ==
  CASE text = "0.25" -> 2500
    [] text = "0" -> 0
    [] text = "0.3102" -> 3102
    [] text = "-1" -> 0 - 10000
    [] OTHER -> NULL

\* String(costPerKwh)
CostString(cost) ==
  CASE cost = 2500 -> "0.25"
    [] cost = 0 -> "0"
    [] OTHER -> "0.3102"

\* The page after the closure has run: initChart() has built the chart on
\* empty series and the first fetchReadings() is in flight.
DeskInit(storage) ==
  [data |-> <<>>, xVals |-> <<>>, yVals |-> <<>>, eVals |-> <<>>,
   costPerKwh |-> DefaultCost,
   selection |-> NoSelection,
   statusConn |-> "", statusPts |-> NULL, statusWindow |-> "live",
   statusLast |-> NULL,
   stat |-> NoStats, statRange |-> NULL,
   scaleX |-> NoScale,
   inflight |-> <<"init">>, overtaken |-> {},
   pollTimer |-> FALSE, refreshDisabled |-> FALSE,
   periodPending |-> FALSE, periodShown |-> FALSE,
   storage |-> storage, costInput |-> "", costListener |-> FALSE,
   pointerSelect |-> NoPointerSelect,
   hover |-> NoHover, overlay |-> NoOverlay,
   promise |-> "none",
   rows |-> <<>>, lastEvent |-> "load"]

(***************************************************************************)
(* Desktop dashboard: window statistics (computeStatsLocal)                *)
(***************************************************************************)

RECURSIVE Gcd(_, _)
Gcd(a, b) == IF b = 0 THEN a ELSE Gcd(b, a % b)

\* the rational n / d in lowest terms, d > 0
Rat(n, d) ==
  LET g == Gcd(Abs(n), d)
  IN IF g = 0 THEN [n |-> 0, d |-> 1] ELSE [n |-> n \div g, d |-> d \div g]

\* Number.isFinite(v) for a number-or-null
IsFinite(v) == v # NULL

\* let i0 = 0; while (i0 < xVals.length && xVals[i0] < startSec) i0++
FirstIndex(x, startSec) ==
  LET hit == {i \in 1..Len(x) : x[i] >= startSec}
  IN IF hit = {} THEN Len(x) + 1 ELSE CHOOSE i \in hit : \A j \in hit : i <= j

\* let i1 = xVals.length - 1; while (i1 >= 0 && xVals[i1] > endSec) i1--
LastIndex(x, endSec) ==
  LET hit == {i \in 1..Len(x) : x[i] <= endSec}
  IN IF hit = {} THEN 0 ELSE CHOOSE i \in hit : \A j \in hit : i >= j

\* eVals[i], undefined past the end of the array
At(s, i) == IF i >= 1 /\ i <= Len(s) THEN s[i] ELSE NULL

RECURSIVE SumSeq(_)
SumSeq(s) == IF Len(s) = 0 THEN 0 ELSE s[1] + SumSeq(Tail(s))

RECURSIVE MinSeq(_)
MinSeq(s) == IF Len(s) = 1 THEN s[1] ELSE Min(s[1], MinSeq(Tail(s)))

RECURSIVE MaxSeq(_)
MaxSeq(s) == IF Len(s) = 1 THEN s[1] ELSE Max(s[1], MaxSeq(Tail(s)))

\* yVals.slice(i0, i1 + 1).filter((v) => Number.isFinite(v))
YSlice(y, i0, i1) == SelectSeq(SubSeq(y, i0, Min(i1, Len(y))), IsFinite)

\* first / last non-null energy sample of the window, NULL when there is none
EStart(e, i0, i1) ==
  LET hit == {i \in i0..i1 : At(e, i) # NULL}
  IN IF hit = {} THEN NULL ELSE At(e, CHOOSE i \in hit : \A j \in hit : i <= j)

EEnd(e, i0, i1) ==
  LET hit == {i \in i0..i1 : At(e, i) # NULL}
  IN IF hit = {} THEN NULL ELSE At(e, CHOOSE i \in hit : \A j \in hit : i >= j)

\* variant of TwiceSumWs that adds every adjacent pair
RECURSIVE TwiceSumWs_noSkip(_, _, _, _)
TwiceSumWs_noSkip(x, y, i, i1) ==
  IF i > i1 THEN 0
  ELSE (At(y, i) + At(y, i - 1)) * (x[i] - x[i - 1])
         + TwiceSumWs_noSkip(x, y, i + 1, i1)

\* twice the watt-seconds of the trapezoid loop: the sum of
\* (yVals[i] + yVals[i-1]) * dtSec over the pairs the loop accepts
RECURSIVE TwiceSumWs(_, _, _, _)
TwiceSumWs(x, y, i, i1) ==
  IF i > i1 THEN 0
  ELSE (IF x[i] - x[i - 1] > 0 /\ IsFinite(At(y, i)) /\ IsFinite(At(y, i - 1))
          THEN (y[i] + y[i - 1]) * (x[i] - x[i - 1])
          ELSE 0) + TwiceSumWs(x, y, i + 1, i1)

\* variant of EnergyUsed whose fallback converts watt-seconds to Wh
EnergyUsed_wattHours(x, y, e, i0, i1) ==
  IF EStart(e, i0, i1) # NULL /\ EEnd(e, i0, i1) # NULL
    THEN Rat(EEnd(e, i0, i1) - EStart(e, i0, i1), KwhScale)
    ELSE Rat(TwiceSumWs(x, y, i0 + 1, i1), 2 * 3600)

\* energyUsed in kWh, as a rational
EnergyUsed(x, y, e, i0, i1) ==
  IF EStart(e, i0, i1) # NULL /\ EEnd(e, i0, i1) # NULL
    THEN Rat(EEnd(e, i0, i1) - EStart(e, i0, i1), KwhScale)
    ELSE Rat(TwiceSumWs(x, y, i0 + 1, i1), 2 * 3600000)

\* the stat-* fields written at the end of computeStatsLocal
StatsOf(x, y, e, cost, i0, i1) ==
  LET ySlice == YSlice(y, i0, i1)
      count == Len(ySlice)
      used == EnergyUsed(x, y, e, i0, i1)
  IN [energy |-> RoundDiv(used.n * 1000, used.d),
      cost |-> RoundDiv(used.n * cost, used.d * (CostScale \div 100)),
      avg |-> IF count > 0 THEN RoundDiv(SumSeq(ySlice) * 10, count) ELSE NULL,
      max |-> IF count > 0 THEN MaxSeq(ySlice) ELSE NULL,
      min |-> IF count > 0 THEN MinSeq(ySlice) ELSE NULL,
      count |-> count]

computeStatsLocal(d, startMs, endMs) ==
  LET startSec == startMs \div 1000
      endSec == endMs \div 1000
      i0 == FirstIndex(d.xVals, startSec)
      i1 == LastIndex(d.xVals, endSec)
  IN IF Len(d.xVals) = 0 \/ endSec <= startSec THEN d
     ELSE IF i1 < i0 THEN d
     ELSE [d EXCEPT !.stat = StatsOf(d.xVals, d.yVals, d.eVals, d.costPerKwh, i0, i1),
                    !.statusWindow = "range"]

(***************************************************************************)
(* Desktop dashboard: selection and chart                                  *)
(***************************************************************************)

\* formatDuration(ms): the text is determined by the whole seconds of ms
FormatDuration(ms) == IF ms <= 0 THEN 0 ELSE ms \div 1000

renderSelection(d) ==
  [d EXCEPT !.statRange =
     IF Truthy(d.selection.start) /\ Truthy(d.selection.end)
       THEN FormatDuration(d.selection.end - d.selection.start)
       ELSE NULL]

\* variant of ClampRange that leaves the range as it was passed
ClampRange_unclamped(x, startMs, endMs) == <<startMs, endMs>>

\* the range applySelectionRange commits: <<startMs, endMs>> after clamping
ClampRange(x, startMs, endMs) ==
  IF Len(x) > 0
    THEN LET minMs == x[1] * 1000
             maxMs == Last(x) * 1000
             s == Max(minMs, Min(startMs, maxMs))
             e == Max(minMs, Min(endMs, maxMs))
         IN <<s, IF e <= s THEN Min(maxMs, s + 1) ELSE e>>
    ELSE <<startMs, endMs>>

\* variant of applySelectionRange without the return on endMs <= startMs
applySelectionRange_unguarded(d, startMs, endMs, label) ==
  IF startMs = NULL \/ endMs = NULL THEN d
  ELSE LET r == ClampRange(d.xVals, startMs, endMs)
           d1 == [d EXCEPT !.selection = [start |-> r[1], end |-> r[2]],
                           !.scaleX = [min |-> r[1], max |-> r[2]],
                           !.overlay = NoOverlay,
                           !.lastEvent = "commit"]
           d2 == computeStatsLocal(renderSelection(d1), r[1], r[2])
       IN [d2 EXCEPT !.statusWindow = label]

\* applySelectionRange(startMs, endMs, label) with clampToData = true; the
\* x scale is held in milliseconds
applySelectionRange(d, startMs, endMs, label) ==
  IF startMs = NULL \/ endMs = NULL THEN d
  ELSE LET r == ClampRange(d.xVals, startMs, endMs)
       IN IF r[2] <= r[1] THEN d
          ELSE LET d1 == [d EXCEPT !.selection = [start |-> r[1], end |-> r[2]],
                                   !.scaleX = [min |-> r[1], max |-> r[2]],
                                   !.overlay = NoOverlay,
                                   !.lastEvent = "commit"]
                   d2 == computeStatsLocal(renderSelection(d1), r[1], r[2])
               IN [d2 EXCEPT !.statusWindow = label]

clearSelection(d) ==
  LET d1 == [d EXCEPT !.selection = NoSelection, !.stat = NoStats]
  IN [renderSelection(d1) EXCEPT !.statusWindow = "live", !.overlay = NoOverlay]

\* the x scale uPlot computes from the data on setData
AutoScale(x) ==
  IF Len(x) = 0 THEN NoScale
  ELSE [min |-> x[1] * 1000, max |-> Last(x) * 1000]

updateChart(d) ==
  LET cur == d.scaleX
      keep == cur.min # NULL /\ cur.max # NULL /\ cur.max > cur.min
      d1 == [d EXCEPT !.scaleX = IF keep THEN cur ELSE AutoScale(d.xVals),
                      !.statusPts = Len(d.data),
                      !.statusLast = IF Len(d.xVals) > 0
                                       THEN Last(d.xVals) * 1000 ELSE @]
  IN IF Truthy(d.selection.start) /\ Truthy(d.selection.end)
       THEN computeStatsLocal(d1, d.selection.start, d.selection.end)
       ELSE d1

setConnection(d, ok) ==
  [d EXCEPT !.statusConn = IF ok THEN "Connected" ELSE "Offline"]

\* updatePeriodSummaries() is started and not awaited
updatePeriodSummaries(d) == [d EXCEPT !.periodPending = TRUE]

\* variant of fetchReadingsOk taking the time axis from the raw rows
fetchReadingsOk_xFromRows(d, rows) ==
  LET mapped == SeriesData(rows)
      d1 == [d EXCEPT !.data = mapped,
                      !.xVals = XValsOf(Mapped(rows)),
                      !.yVals = YValsOf(mapped),
                      !.eVals = EValsOf(rows),
                      !.rows = rows]
      d2 == setConnection(updateChart(d1), TRUE)
      d3 == IF UsedDerived(rows) THEN [d2 EXCEPT !.statusWindow = "derived"] ELSE d2
  IN [updatePeriodSummaries(d3) EXCEPT !.promise = "fulfilled"]

\* the try block of fetchReadings once the response has been parsed
fetchReadingsOk(d, rows) ==
  LET mapped == SeriesData(rows)
      d1 == [d EXCEPT !.data = mapped,
                      !.xVals = XValsOf(mapped),
                      !.yVals = YValsOf(mapped),
                      !.eVals = EValsOf(rows),
                      !.rows = rows]
      d2 == setConnection(updateChart(d1), TRUE)
      d3 == IF UsedDerived(rows) THEN [d2 EXCEPT !.statusWindow = "derived"] ELSE d2
  IN [updatePeriodSummaries(d3) EXCEPT !.promise = "fulfilled"]

\* variant of fetchReadingsFail that lets the error escape
fetchReadingsFail_rethrow(d) == [setConnection(d, FALSE) EXCEPT !.promise = "rejected"]

\* variant of fetchReadingsFail that drops the series it could not refresh
fetchReadingsFail_clear(d) ==
  [setConnection(d, FALSE) EXCEPT !.promise = "fulfilled", !.data = <<>>,
                                  !.xVals = <<>>, !.yVals = <<>>, !.eVals = <<>>]

\* the catch block of fetchReadings: the error is logged and swallowed, so
\* the promise fetchReadings returned is fulfilled
fetchReadingsFail(d) == [setConnection(d, FALSE) EXCEPT !.promise = "fulfilled"]

selectRelativeRange(d, durationMs, label) ==
  IF Len(d.xVals) = 0 THEN d
  ELSE LET endMs == Last(d.xVals) * 1000
           startMs == Max(d.xVals[1] * 1000, endMs - durationMs)
       IN applySelectionRange(d, startMs, endMs, label)

selectCalendarRange(d, startMs, endMs, label) ==
  IF Len(d.xVals) = 0 THEN d
  ELSE applySelectionRange(d, startMs, endMs, label)

\* updateHover(idx), idx counted from 1; fmt.t prints the dash for 0
updateHover(d, idx) ==
  IF Len(d.xVals) = 0 \/ idx = NULL \/ idx < 1 \/ idx > Len(d.xVals)
    THEN [d EXCEPT !.hover = NoHover]
    ELSE [d EXCEPT !.hover =
            [time |-> IF Truthy(d.xVals[idx] * 1000) THEN d.xVals[idx] * 1000
                      ELSE NULL,
             energy |-> At(d.eVals, idx),
             power |-> At(d.yVals, idx)]]

\* the binary search of findNearestIndex over xVals[lo..hi], indices counted
\* from 0 as in the code; the target is held in milliseconds
RECURSIVE NearestFrom(_, _, _, _)
NearestFrom(x, ms, lo, hi) ==
  IF lo <= hi
    THEN LET mid == (lo + hi) \div 2
             midVal == x[mid + 1] * 1000
         IN IF midVal = ms THEN mid
            ELSE IF midVal < ms THEN NearestFrom(x, ms, mid + 1, hi)
            ELSE NearestFrom(x, ms, lo, mid - 1)
    ELSE IF lo >= Len(x) THEN Len(x) - 1
    ELSE IF hi < 0 THEN 0
    ELSE IF ms - x[hi + 1] * 1000 <= x[lo + 1] * 1000 - ms THEN hi ELSE lo

\* findNearestIndex(targetSec), counted from 1; NULL for no index
findNearestIndex(x, ms) ==
  IF Len(x) = 0 \/ ms = NULL THEN NULL
  ELSE 1 + NearestFrom(x, ms, 0, Len(x) - 1)

\* updateHoverAtPx(px); ms is posToVal of px, NULL when it is not finite
updateHoverAtPx(d, px, ms) ==
  IF Len(d.xVals) = 0 \/ px = NULL \/ findNearestIndex(d.xVals, ms) = NULL THEN d
  ELSE updateHover(d, findNearestIndex(d.xVals, ms))

\* renderPointerSelection(currentPx)
renderPointerSelection(d, currentPx) ==
  IF ~d.pointerSelect.active \/ d.pointerSelect.startPx = NULL \/ currentPx = NULL
    THEN d
    ELSE [d EXCEPT !.overlay =
            [left |-> Min(d.pointerSelect.startPx, currentPx),
             width |-> Abs(d.pointerSelect.startPx - currentPx)]]

\* resetPointerSelectionState()
resetPointerSelectionState(d) ==
  [d EXCEPT !.pointerSelect = NoPointerSelect, !.overlay = NoOverlay]

\* finalizePointerSelection(px); endMs is pxToMs of the release position
finalizePointerSelection(d, endMs) ==
  LET startMs == d.pointerSelect.startMs
      d1 == resetPointerSelectionState(d)
  IN IF startMs = NULL \/ endMs = NULL THEN d1
     ELSE LET from == Min(startMs, endMs)
              to == IF Max(startMs, endMs) = from THEN from + 1
                    ELSE Max(startMs, endMs)
          IN applySelectionRange(d1, from, to, "range")

\* handlePointerSelectStart(evt) of a pointer that selects; px is
\* getRelativeXPx(evt) and ms is pxToMs(px)
handlePointerSelectStart(d, id, px, ms) ==
  IF Len(d.xVals) = 0 \/ px = NULL \/ ms = NULL THEN d
  ELSE LET d1 == [d EXCEPT !.pointerSelect =
                     [active |-> TRUE, pointerId |-> id, startPx |-> px,
                      startMs |-> ms]]
           d2 == renderPointerSelection(updateHoverAtPx(d1, px, ms), px)
       IN [d2 EXCEPT !.statusWindow = "selecting"]

\* variant of handlePointerSelectMove that commits the range under the finger
handlePointerSelectMove_commits(d, id, px, ms) ==
  IF ~d.pointerSelect.active \/ id # d.pointerSelect.pointerId \/ px = NULL THEN d
  ELSE LET d1 == renderPointerSelection(updateHoverAtPx(d, px, ms), px)
       IN IF ms = NULL THEN d1
          ELSE applySelectionRange(d1, Min(d.pointerSelect.startMs, ms),
                                   Max(d.pointerSelect.startMs, ms), "range")

\* handlePointerSelectMove(evt); ms is posToVal of the position
handlePointerSelectMove(d, id, px, ms) ==
  IF ~d.pointerSelect.active \/ id # d.pointerSelect.pointerId \/ px = NULL THEN d
  ELSE renderPointerSelection(updateHoverAtPx(d, px, ms), px)

\* handlePointerSelectEnd(evt); endMs is pxToMs of the release position, or
\* of the start position when the release position cannot be measured
handlePointerSelectEnd(d, id, endMs) ==
  IF ~d.pointerSelect.active \/ id # d.pointerSelect.pointerId THEN d
  ELSE finalizePointerSelection(d, endMs)

\* variant of cancelPointerSelection that commits what was dragged so far
cancelPointerSelection_commits(d, id) ==
  IF ~d.pointerSelect.active \/ id # d.pointerSelect.pointerId THEN d
  ELSE finalizePointerSelection(d, d.pointerSelect.startMs + 1000)

\* cancelPointerSelection(evt)
cancelPointerSelection(d, id) ==
  IF ~d.pointerSelect.active THEN d
  ELSE IF d.pointerSelect.pointerId # NULL /\ id # d.pointerSelect.pointerId THEN d
  ELSE resetPointerSelectionState(d)

\* loadCostFromStorage(): the stored text or else the text of the input is
\* parsed, and the change listener of the input is installed
loadCostFromStorage(d) ==
  LET cost == IF d.storage # <<>>
                THEN IF Truthy(ParseFloat(d.storage[1])) THEN ParseFloat(d.storage[1])
                     ELSE d.costPerKwh
                ELSE IF Truthy(ParseFloat(d.costInput)) THEN ParseFloat(d.costInput)
                     ELSE d.costPerKwh
  IN [d EXCEPT !.costPerKwh = cost,
               !.costInput = IF d.storage # <<>> THEN CostString(cost) ELSE @,
               !.costListener = TRUE]

\* change listener of cost-input
costInputChange(d, text) ==
  LET nv == ParseFloat(text)
      d1 == [d EXCEPT !.costInput = text]
  IN IF nv # NULL /\ nv >= 0
       THEN updatePeriodSummaries([d1 EXCEPT !.costPerKwh = nv,
                                            !.storage = <<CostString(nv)>>])
       ELSE d1

(***************************************************************************)
(* Desktop dashboard: fetches, poll loop and buttons                       *)
(***************************************************************************)

RemoveAt(s, i) == SubSeq(s, 1, i - 1) \o SubSeq(s, i + 1, Len(s))

\* variant of poll that sets its timer before the fetch has settled
poll_eager(d) == [d EXCEPT !.inflight = Append(@, "poll"), !.pollTimer = TRUE]

\* poll() up to its await: fetchReadings() is issued
poll(d) == [d EXCEPT !.inflight = Append(@, "poll")]

\* setTimeout(poll, pollingMs)
setPollTimer(d) == [d EXCEPT !.pollTimer = TRUE]

\* What runs when the promise of a fetchReadings() call settles: the
\* then/catch of the initial call, the rest of poll(), or the finally of the
\* refresh button.  A rejected promise ends poll() before its setTimeout.
afterFetch(d, origin) ==
  LET d1 ==
        CASE origin = "init" ->
               IF d.promise = "fulfilled"
                 THEN poll(updatePeriodSummaries(loadCostFromStorage(d)))
                 ELSE setPollTimer(d)
          [] origin = "poll" ->
               IF d.promise = "fulfilled" THEN setPollTimer(d) ELSE d
          [] OTHER -> [d EXCEPT !.refreshDisabled = FALSE]
  IN [d1 EXCEPT !.promise = "none"]

DeskStep(d) == desk' = d /\ UNCHANGED <<mob, env, cmp>>

\* a readings response arrives with status 2xx and parses; overtaken holds
\* the requests in flight that were issued before one already answered
FetchReadingsResolves(origin) ==
  \E i \in 1..Len(desk.inflight), rows \in env.readings :
    /\ desk.inflight[i] = origin
    /\ DeskStep(afterFetch(
         fetchReadingsOk([desk EXCEPT !.inflight = RemoveAt(@, i),
                                      !.overtaken =
                                        (@ \cup {desk.inflight[k] : k \in 1..(i - 1)})
                                          \ {origin},
                                      !.lastEvent = "fetch_ok"], rows),
         origin))

\* a readings request fails: transport error, non-2xx status or bad body
FetchReadingsFails(origin) ==
  \E i \in 1..Len(desk.inflight) :
    /\ desk.inflight[i] = origin
    /\ DeskStep(afterFetch(
         fetchReadingsFail([desk EXCEPT !.inflight = RemoveAt(@, i),
                                        !.overtaken = @ \ {origin},
                                        !.lastEvent = "fetch_fail"]),
         origin))

FetchSettles(origin) == FetchReadingsResolves(origin) \/ FetchReadingsFails(origin)

Origins == {"init", "poll", "refresh"}

\* the timer set by setTimeout(poll, pollingMs) fires
PollTimerFires ==
  /\ desk.pollTimer
  /\ DeskStep(poll([desk EXCEPT !.pollTimer = FALSE, !.lastEvent = "timer"]))

\* click on btn-refresh
BtnRefreshClick ==
  /\ ~desk.refreshDisabled
  /\ DeskStep([desk EXCEPT !.refreshDisabled = TRUE,
                           !.inflight = Append(@, "refresh"),
                           !.lastEvent = "refresh"])

\* click on btn-last-hour / btn-last-day
BtnLastHourClick ==
  DeskStep(selectRelativeRange([desk EXCEPT !.lastEvent = "preset"],
                               60 * 60 * 1000, "last hour"))

BtnLastDayClick ==
  DeskStep(selectRelativeRange([desk EXCEPT !.lastEvent = "preset"],
                               24 * 60 * 60 * 1000, "last day"))

\* variant of btnResetClick that leaves the statistics on display
btnResetClick_keepsStats(d) ==
  LET d1 == IF Len(d.xVals) > 0 THEN [d EXCEPT !.scaleX = AutoScale(d.xVals)] ELSE d
  IN [clearSelection(d1) EXCEPT !.stat = d.stat]

\* the click listener of btn-reset
btnResetClick(d) ==
  LET d1 == IF Len(d.xVals) > 0 THEN [d EXCEPT !.scaleX = AutoScale(d.xVals)] ELSE d
  IN clearSelection(d1)

\* click on btn-reset
BtnResetClick == DeskStep(btnResetClick([desk EXCEPT !.lastEvent = "reset"]))

\* The setSelect hook after a mouse drag on the plot: x0 and x1 are
\* Math.floor(posToVal(...) * 1000) of the two edges of the rectangle, whose
\* width is positive; the hook ends by clearing the rectangle.
MouseSelect ==
  \E x0 \in env.plot, x1 \in env.plot :
    /\ x0 # NULL /\ x1 # NULL
    /\ x1 >= x0
    /\ LET d == [desk EXCEPT !.lastEvent = "input"]
       IN DeskStep([(IF x1 > x0 THEN applySelectionRange(d, x0, x1, "range")
                     ELSE d) EXCEPT !.overlay = NoOverlay])

Pointers == {1, 2}

\* pointerdown on the plot of a touch device, at a position the plot maps
\* to ms
PointerSelectStart ==
  \E id \in Pointers, px \in env.px, ms \in env.plot :
    DeskStep(handlePointerSelectStart([desk EXCEPT !.lastEvent = "input"],
                                      id, px, ms))

\* pointermove on the plot
PointerSelectMove ==
  \E id \in Pointers, px \in env.px, ms \in env.plot :
    DeskStep(handlePointerSelectMove([desk EXCEPT !.lastEvent = "input"],
                                     id, px, ms))

\* pointerup on the plot
PointerSelectEnd ==
  \E id \in Pointers, ms \in env.plot :
    DeskStep(handlePointerSelectEnd([desk EXCEPT !.lastEvent = "input"], id, ms))

\* pointercancel / lostpointercapture on the plot
PointerSelectCancel ==
  \E id \in Pointers :
    DeskStep(cancelPointerSelection([desk EXCEPT !.lastEvent = "pointercancel"],
                                    id))

\* the dblclick listener of the chart element
chartDblClick(d) ==
  IF Len(d.xVals) > 0
    THEN clearSelection([d EXCEPT !.scaleX = AutoScale(d.xVals)])
    ELSE d

\* dblclick on the chart element
ChartDblClick == DeskStep(chartDblClick([desk EXCEPT !.lastEvent = "dblclick"]))

\* start of the week of now: local midnight of the most recent Sunday (day 0
\* of the epoch is a Thursday; local time is taken as UTC)
WeekStart(now) ==
  LET dayStart == (now \div 86400000) * 86400000
      weekday == ((now \div 86400000) + 4) % 7
  IN dayStart - weekday * 86400000

\* click on btn-last-week
BtnLastWeekClick ==
  \E now \in env.now :
    DeskStep(selectCalendarRange([desk EXCEPT !.lastEvent = "preset"],
                                 WeekStart(now), now, "last week"))

\* new Date(...) of the same day and time one month or one year before now:
\* an instant at least 28 days back, further than the integers of the
\* checker reach in milliseconds from the instants of env.now, and so before
\* every sample of the feeds
EarlierDate(now) == 0 - 2000000000

\* click on btn-last-month
BtnLastMonthClick ==
  \E now \in env.now :
    DeskStep(selectCalendarRange([desk EXCEPT !.lastEvent = "preset"],
                                 EarlierDate(now), now, "last month"))

\* click on btn-last-year
BtnLastYearClick ==
  \E now \in env.now :
    DeskStep(selectCalendarRange([desk EXCEPT !.lastEvent = "preset"],
                                 EarlierDate(now), now, "last year"))

\* a text is entered into cost-input, once its listener is installed
CostInputChange ==
  /\ desk.costListener
  /\ \E text \in env.typed :
       DeskStep(costInputChange([desk EXCEPT !.lastEvent = "cost"], text))

\* the page is loaded again: the closure runs anew, localStorage is kept
PageReload ==
  \E storage \in {desk.storage} : DeskStep(DeskInit(storage))

\* the requests of updatePeriodSummaries settle; further calls may remain
PeriodSummariesSettle ==
  /\ desk.periodPending
  /\ \E ok \in BOOLEAN, more \in BOOLEAN :
       DeskStep([desk EXCEPT !.periodPending = more,
                             !.periodShown = IF ok THEN TRUE ELSE @,
                             !.lastEvent = "period"])

(***************************************************************************)
(* Mobile dashboard: data of the service and shared helpers                *)
(***************************************************************************)

Day == 86400000

\* Date.now(), fixed for the run
Now == 8 * Day

\* values the days input can hold
DaysChoices == {1, 7}

Bucket(t, kwh) == [t |-> t, kwh |-> kwh]

\* responses of GET readings on the mobile page
MobRows ==
  { <<>>,
    <<Row(7 * Day, 100, 1000)>>,
    <<Row(6 * Day, 50, 900), Row(7 * Day, 100, 1000)>> }

\* bodies of GET energy_summary
MobSummaries ==
  { [daily |-> <<Bucket(6 * Day, 5000), Bucket(7 * Day, 7000)>>,
     moving_avg_30d |-> <<Bucket(7 * Day, 6000)>>, avg_daily |-> 6000],
    [daily |-> <<>>, moving_avg_30d |-> <<>>, avg_daily |-> NULL] }

\* the stats member of the body of GET stats, <<>> when the body has none
MobStats ==
  { <<>>,
    <<[energy_used_kwh |-> 1200, avg_power_watts |-> 150, max_power_watts |-> 200,
       min_power_watts |-> 100, count |-> 2]>>,
    <<[energy_used_kwh |-> NULL, avg_power_watts |-> NULL, max_power_watts |-> NULL,
       min_power_watts |-> NULL, count |-> 0]>> }

\* energy_in_kwh of the body of GET latest_reading
MobLatest == {NULL, 12340}

\* the local calendar day of a timestamp
DayKey(ms) == ms \div Day

\* shared processReadingsData(rows): the three series of a response
processReadingsData(rows) ==
  [xVals |-> XValsOf(SeriesData(rows)),
   yVals |-> YValsOf(SeriesData(rows)),
   eVals |-> EValsOf(rows)]

\* kwh of the last bucket of the collection on the given day, NULL if none
BucketOn(buckets, key) ==
  LET hit == {i \in 1..Len(buckets) : DayKey(buckets[i].t) = key}
  IN IF hit = {} THEN NULL
     ELSE buckets[CHOOSE i \in hit : \A j \in hit : i >= j].kwh

\* shared alignDailyDataToTimestamps(dailyData, xVals)
alignDailyDataToTimestamps(buckets, x) ==
  [i \in 1..Len(x) |-> BucketOn(buckets, DayKey(x[i] * 1000))]

(***************************************************************************)
(* Mobile dashboard: state and rendering                                   *)
(***************************************************************************)

\* the stat-* fields showing "–"
NoMobStats ==
  [energy |-> NULL, cost |-> NULL, typicalEnergy |-> NULL, typicalCost |-> NULL,
   avg |-> NULL, max |-> NULL, min |-> NULL, count |-> NULL, range |-> NULL]

\* the three requests of one loadInitialData(days) call, as a bag
InitialFetches(days) ==
  SetToBag({[kind |-> k, days |-> days] : k \in {"latest", "stats", "summary"}})

\* The page after init(): the listeners are installed and
\* loadInitialData(initialDays) has issued its three requests.
MobInit ==
  [u |-> FALSE,
   xVals |-> <<>>, yVals |-> <<>>, eVals |-> <<>>,
   dailyEnergyVals |-> <<>>, typicalDailyVals |-> <<>>,
   dailyEnergyData |-> <<>>, movingAvgData |-> <<>>,
   avgDailyEnergyUsage |-> NULL,
   costPerKwh |-> DefaultCost,
   chartLoaded |-> FALSE,
   chartAbortController |-> NULL,
   lastStats |-> <<>>, lastDays |-> NULL,
   daysInput |-> 7,
   statusConn |-> "",
   statCurrentPower |-> NULL,
   statsBlock |-> NoMobStats,
   dailyTable |-> [baseline |-> NULL, rows |-> <<>>],
   btnShowChart |-> "Show chart", chartVisible |-> FALSE, loading |-> FALSE,
   loads |-> <<>>,
   initial |-> InitialFetches(7),
   newest |-> [state |-> "none", rows |-> <<>>, daily |-> <<>>],
   lastEvent |-> "load"]

setConnectionStatus(m, ok) ==
  [m EXCEPT !.statusConn = IF ok THEN "Connected" ELSE "Offline"]

updateCurrentPowerRow(m, kwh) == [m EXCEPT !.statCurrentPower = kwh]

\* energy (1/KwhScale kWh) times cost per kWh, printed with two decimals
CostText(energy, cost) ==
  IF energy = NULL THEN NULL
  ELSE RoundDiv(energy * cost, KwhScale * (CostScale \div 100))

\* updateStats(stats, startMs, endMs) with endMs - startMs = days days
updateStats(m, st, days) ==
  IF st = <<>> THEN [m EXCEPT !.statsBlock = NoMobStats]
  ELSE LET stats == st[1]
           typical == IF m.avgDailyEnergyUsage # NULL
                        THEN m.avgDailyEnergyUsage * days ELSE NULL
       IN [m EXCEPT !.statsBlock =
             [energy |-> stats.energy_used_kwh,
              cost |-> CostText(stats.energy_used_kwh, m.costPerKwh),
              typicalEnergy |-> typical,
              typicalCost |-> CostText(typical, m.costPerKwh),
              avg |-> stats.avg_power_watts,
              max |-> stats.max_power_watts,
              min |-> stats.min_power_watts,
              count |-> stats.count,
              range |-> days]]

\* if (lastStats != null && lastStartMs != null && lastEndMs != null) updateStats(...)
refreshStats(m) ==
  IF m.lastStats # <<>> /\ m.lastDays # NULL
    THEN updateStats(m, m.lastStats, m.lastDays) ELSE m

\* the buckets sorted by time, most recent first
RECURSIVE SortDesc(_)
SortDesc(b) ==
  IF Len(b) = 0 THEN <<>>
  ELSE LET top == CHOOSE i \in 1..Len(b) :
                    /\ \A j \in 1..Len(b) : b[i].t >= b[j].t
                    /\ \A j \in 1..(i - 1) : b[j].t < b[i].t
       IN <<b[top]>> \o SortDesc(RemoveAt(b, top))

InPeriod(b, days) == b.t >= Now - days * Day /\ b.t <= Now

\* updateDailyTable(startMs, endMs): the title's baseline and the rows
updateDailyTable(m, days) ==
  LET inRange(b) == InPeriod(b, days)
      filtered == SortDesc(SelectSeq(m.dailyEnergyData, inRange))
      mapped == IF Len(filtered) > 0
                  THEN BucketOn(m.movingAvgData, DayKey(filtered[1].t)) ELSE NULL
      baseline == IF mapped # NULL THEN mapped ELSE m.avgDailyEnergyUsage
  IN [m EXCEPT !.dailyTable =
        [baseline |-> baseline,
         rows |-> [i \in 1..Len(filtered) |->
                     [t |-> filtered[i].t, kwh |-> filtered[i].kwh,
                      diff |-> IF filtered[i].kwh # NULL /\ baseline # NULL
                                 THEN filtered[i].kwh - baseline ELSE NULL]]]]

showErrorInitial(m) ==
  updateCurrentPowerRow([m EXCEPT !.statsBlock = NoMobStats], NULL)

\* summaryData.daily || [], summaryData.moving_avg_30d || [], summaryData.avg_daily || null
storeSummary(m, summary) ==
  [m EXCEPT !.dailyEnergyData = summary.daily,
            !.movingAvgData = summary.moving_avg_30d,
            !.avgDailyEnergyUsage = IF Truthy(summary.avg_daily)
                                      THEN summary.avg_daily ELSE NULL]

\* updateChart(): the chart is created on first use
mobUpdateChart(m) == [m EXCEPT !.u = TRUE]

processReadings(m, rows) ==
  IF Len(rows) = 0
    THEN mobUpdateChart([m EXCEPT !.xVals = <<>>, !.yVals = <<>>, !.eVals = <<>>,
                                  !.dailyEnergyVals = <<>>, !.typicalDailyVals = <<>>])
    ELSE LET processed == processReadingsData(rows)
         IN mobUpdateChart(
              [m EXCEPT !.xVals = processed.xVals,
                        !.yVals = processed.yVals,
                        !.eVals = processed.eVals,
                        !.dailyEnergyVals =
                          alignDailyDataToTimestamps(m.dailyEnergyData, processed.xVals),
                        !.typicalDailyVals =
                          alignDailyDataToTimestamps(m.movingAvgData, processed.xVals)])

(***************************************************************************)
(* Mobile dashboard: loadInitialData                                       *)
(***************************************************************************)

loadInitialData(m, days) ==
  [m EXCEPT !.initial = @ (+) InitialFetches(days)]

\* latest_reading: .then((data) => ...) with data null for a non-2xx status
latestThen(m, data) ==
  setConnectionStatus(
    updateCurrentPowerRow(m, IF data = <<>> THEN NULL ELSE data[1]),
    data # <<>>)

latestCatch(m) == setConnectionStatus(updateCurrentPowerRow(m, NULL), FALSE)

statsThen(m, stats, days) ==
  updateStats([m EXCEPT !.lastStats = stats, !.lastDays = days], stats, days)

statsCatch(m) == showErrorInitial(setConnectionStatus(m, FALSE))

summaryThen(m, summary, days) ==
  refreshStats(updateDailyTable(storeSummary(m, summary), days))

(***************************************************************************)
(* Mobile dashboard: chart detail                                          *)
(***************************************************************************)

\* new AbortController(): an object distinct from those of the loads in flight
NewController(m) ==
  LET free == (1..MaxInFlight) \ {m.loads[i].ctl : i \in 1..Len(m.loads)}
  IN CHOOSE c \in free : \A other \in free : c <= other

\* fetchChartData(days) up to its await; ctl is the new AbortController
fetchChartData(m, days, ctl) ==
  [m EXCEPT !.chartAbortController = ctl,
            !.chartVisible = TRUE,
            !.btnShowChart = "Hide chart",
            !.loading = TRUE,
            !.loads = [i \in 1..Len(@) |-> [@[i] EXCEPT !.newest = FALSE]]
                        \o <<[ctl |-> ctl, days |-> days, aborted |-> FALSE,
                              newest |-> TRUE]>>,
            !.newest = [state |-> "pending", rows |-> <<>>, daily |-> <<>>]]

\* the finally block of fetchChartData
chartFinally(m) == [m EXCEPT !.chartAbortController = NULL, !.loading = FALSE]

\* fetchChartData after both responses have been parsed
fetchChartOk(m, rows, summary, days) ==
  LET m1 == processReadings(storeSummary(m, summary), rows)
      m2 == refreshStats(updateDailyTable(mobUpdateChart(m1), days))
  IN chartFinally(setConnectionStatus([m2 EXCEPT !.chartLoaded = TRUE], TRUE))

\* the catch block of fetchChartData for an error other than AbortError
fetchChartFail(m) ==
  chartFinally([setConnectionStatus(m, FALSE) EXCEPT !.btnShowChart = "Show chart",
                                                     !.chartVisible = FALSE,
                                                     !.chartLoaded = FALSE])

\* variant of fetchChartAborted that treats AbortError like any other error
fetchChartAborted_asError(m) == fetchChartFail(m)

\* the catch block of fetchChartData for AbortError: return, then finally
fetchChartAborted(m) == chartFinally(m)

\* hideChart(): abort the controller held, hide and destroy the chart
hideChart(m) ==
  [m EXCEPT !.loads = [i \in 1..Len(@) |->
                         IF @[i].ctl = m.chartAbortController
                           THEN [@[i] EXCEPT !.aborted = TRUE] ELSE @[i]],
            !.chartAbortController = NULL,
            !.btnShowChart = "Show chart",
            !.chartVisible = FALSE,
            !.chartLoaded = FALSE,
            !.u = FALSE,
            !.loading = FALSE]

(***************************************************************************)
(* Mobile dashboard: events                                                *)
(***************************************************************************)

MobStep(m) == mob' = m /\ UNCHANGED <<desk, env, cmp>>

\* the rejection of an aborted fetch is handled before any other event
NoAbortPending == \A i \in 1..Len(mob.loads) : ~mob.loads[i].aborted

\* the request f of loadInitialData leaves the bag of requests in flight
InitialSettles(f, event) ==
  [mob EXCEPT !.initial = @ (-) SetToBag({f}), !.lastEvent = event]

\* GET latest_reading answers: a body, a non-2xx status, or a transport error
LatestSettles ==
  \E f \in BagToSet(mob.initial) :
    /\ NoAbortPending
    /\ f.kind = "latest"
    /\ \/ \E kwh \in env.latest :
            MobStep(latestThen(InitialSettles(f, "latest_ok"), <<kwh>>))
       \/ MobStep(latestThen(InitialSettles(f, "latest_fail"), <<>>))
       \/ MobStep(latestCatch(InitialSettles(f, "latest_fail")))

\* GET stats answers
StatsSettles ==
  \E f \in BagToSet(mob.initial) :
    /\ NoAbortPending
    /\ f.kind = "stats"
    /\ \/ \E st \in env.stats :
            MobStep(statsThen(InitialSettles(f, "stats_ok"), st, f.days))
       \/ MobStep(statsCatch(InitialSettles(f, "stats_fail")))

\* GET energy_summary of loadInitialData answers
SummarySettles ==
  \E f \in BagToSet(mob.initial) :
    /\ NoAbortPending
    /\ f.kind = "summary"
    /\ \/ \E su \in env.summaries :
            MobStep(summaryThen(InitialSettles(f, "summary_ok"), su, f.days))
       \/ MobStep(InitialSettles(f, "summary_fail"))

\* change event of the days input
handleDaysChange ==
  \E days \in env.days :
    /\ NoAbortPending
    /\ BagCardinality(mob.initial) + 3 <= 3 * MaxInitialLoads
    /\ mob.chartLoaded => Len(mob.loads) < MaxInFlight
    /\ LET m == loadInitialData([mob EXCEPT !.daysInput = days, !.lastEvent = "days"], days)
       IN MobStep(IF mob.chartLoaded
                    THEN fetchChartData(m, days, NewController(mob)) ELSE m)

\* click on btn-show-chart while the chart counts as loaded
HideChartClick ==
  /\ NoAbortPending
  /\ mob.chartLoaded
  /\ MobStep(hideChart([mob EXCEPT !.lastEvent = "hide"]))

\* click on btn-show-chart otherwise
ShowChartClick ==
  /\ NoAbortPending
  /\ ~mob.chartLoaded
  /\ Len(mob.loads) < MaxInFlight
  /\ MobStep(fetchChartData([mob EXCEPT !.lastEvent = "show"], mob.daysInput,
                            NewController(mob)))

\* both requests of a chart load have answered and parsed
ChartLoadResolves ==
  \E i \in 1..Len(mob.loads), rows \in env.readings, su \in env.summaries :
    /\ NoAbortPending
    /\ LET l == mob.loads[i]
           m == [mob EXCEPT !.loads = RemoveAt(@, i), !.lastEvent = "chart_ok",
                            !.newest = IF l.newest
                                         THEN [state |-> "ok", rows |-> rows,
                                               daily |-> su.daily]
                                         ELSE @]
       IN MobStep(fetchChartOk(m, rows, su, l.days))

\* a request of a chart load fails: transport error or non-2xx status
ChartLoadFails ==
  \E i \in 1..Len(mob.loads) :
    /\ NoAbortPending
    /\ LET l == mob.loads[i]
           m == [mob EXCEPT !.loads = RemoveAt(@, i), !.lastEvent = "chart_fail",
                            !.newest = IF l.newest THEN [@ EXCEPT !.state = "fail"] ELSE @]
       IN MobStep(fetchChartFail(m))

\* the requests of an aborted chart load reject with AbortError
ChartLoadAborted ==
  \E i \in 1..Len(mob.loads) :
    /\ mob.loads[i].aborted
    /\ LET l == mob.loads[i]
           m == [mob EXCEPT !.loads = RemoveAt(@, i), !.lastEvent = "chart_aborted",
                            !.newest = IF l.newest THEN [@ EXCEPT !.state = "aborted"] ELSE @]
       IN MobStep(fetchChartAborted(m))

(***************************************************************************)
(* Compare page: numbers                                                   *)
(***************************************************************************)

\* A number of the compare page is an exact fraction n / d in lowest terms
\* with d > 0; null, undefined and a missing member are NoVal.
NoVal == [n |-> 0, d |-> 0]

\* v != null && Number.isFinite(v)
IsVal(r) == r.d # 0

Num(k) == [n |-> k, d |-> 1]

RSub(x, y) == Rat(x.n * y.d - y.n * x.d, x.d * y.d)

RMul(x, y) == Rat(x.n * y.n, x.d * y.d)

\* x / y for y # 0
RDiv(x, y) ==
  IF y.n < 0 THEN Rat((0 - x.n) * y.d, x.d * (0 - y.n))
  ELSE Rat(x.n * y.d, x.d * y.n)

RLeq(x, y) == x.n * y.d <= y.n * x.d

RAbs(x) == [n |-> Abs(x.n), d |-> x.d]

Pow10(k) == CASE k = 0 -> 1 [] k = 1 -> 10 [] OTHER -> 100

\* shared Fmt.n(v, digits): the number with that many decimals, held as the
\* integer count of its last decimal place; NULL is the dash
FmtN(r, digits) ==
  IF IsVal(r) THEN RoundDiv(r.n * Pow10(digits), r.d) ELSE NULL

\* stats?.member of a response whose stats may be absent
StatsMember(stats, member) ==
  IF stats = <<>> THEN NoVal ELSE stats[1][member]

\* shared loadCostPerKwh(): the stored cost, the default when there is none
\* or it does not parse
loadCostPerKwh(storage) ==
  IF storage = <<>> \/ ParseFloat(storage[1]) = NULL THEN Rat(DefaultCost, CostScale)
  ELSE Rat(ParseFloat(storage[1]), CostScale)

(***************************************************************************)
(* Compare page: range calendars                                           *)
(***************************************************************************)

\* A date is the number of its local day; NULL is no date.
\* createRangeCalendar(containerEl, initialStart, initialEnd, options), and
\* setRange(start, end)
RangeCalendar(start, end) ==
  [startDate |-> start, endDate |-> end,
   step |-> IF start # NULL /\ end = NULL THEN "end" ELSE "start"]

\* variant of the click listener that keeps the second click as the end
calendarDayClick_noSwap(cal, clicked) ==
  IF cal.step = "start"
    THEN [startDate |-> clicked, endDate |-> NULL, step |-> "end"]
    ELSE [startDate |-> cal.startDate, endDate |-> clicked, step |-> "start"]

\* click listener of a .day button
calendarDayClick(cal, clicked) ==
  IF cal.step = "start"
    THEN [startDate |-> clicked, endDate |-> NULL, step |-> "end"]
    ELSE IF cal.startDate # NULL /\ cal.startDate > clicked
           THEN [startDate |-> clicked, endDate |-> cal.startDate, step |-> "start"]
           ELSE [startDate |-> cal.startDate, endDate |-> clicked, step |-> "start"]

\* getRange(): <<>> is null
getRange(cal) ==
  IF cal.startDate = NULL \/ cal.endDate = NULL THEN <<>>
  ELSE <<[startMs |-> cal.startDate * Day, endMs |-> cal.endDate * Day + (Day - 1)]>>

\* getEndOfTodayMs() on the given day
getEndOfTodayMs(today) == (today + 1) * Day - 1

\* variant of trimRangeToToday that passes the range on as it is
trimRangeToToday_untrimmed(range, today) ==
  [startMs |-> range.startMs, endMs |-> range.endMs]

\* trimRangeToToday(range)
trimRangeToToday(range, today) ==
  [startMs |-> range.startMs, endMs |-> Min(range.endMs, getEndOfTodayMs(today))]

\* Math.ceil(n / d) for d > 0
CeilDiv(n, d) == 0 - ((0 - n) \div d)

\* daysInRange(range)
daysInRange(range) == CeilDiv(range.endMs - range.startMs, Day)

\* Date.prototype.getDay(): day 0 of the epoch is a Thursday
GetDay(date) == (date + 4) % 7

\* getDefaultCompareRanges()
getDefaultCompareRanges(today) ==
  LET monthAgoWeekStart == (today - 28) - GetDay(today - 28)
  IN [monthAgoWeekStart |-> monthAgoWeekStart,
      monthAgoWeekEnd |-> monthAgoWeekStart + 6,
      thisWeekStart |-> today - GetDay(today),
      thisWeekEnd |-> today]

(***************************************************************************)
(* Compare page: statistics and differences                                *)
(***************************************************************************)

\* the six stat-a-* / stat-b-* fields
NoPeriodStats ==
  [energy |-> NULL, dailyAvg |-> NULL, cost |-> NULL, days |-> NULL,
   powerAvg |-> NULL, count |-> NULL]

\* renderPeriodStats(prefix, stats, range)
renderPeriodStats(stats, range, costPerKwh) ==
  LET kwh == StatsMember(stats, "energy_used_kwh")
      cost == IF IsVal(kwh) THEN RMul(kwh, costPerKwh) ELSE NoVal
      days == daysInRange(range)
      dailyAvg == IF IsVal(kwh) /\ days > 0 THEN RDiv(kwh, Num(days)) ELSE NoVal
  IN [energy |-> FmtN(kwh, 2), dailyAvg |-> FmtN(dailyAvg, 2), cost |-> FmtN(cost, 2),
      days |-> days, powerAvg |-> FmtN(StatsMember(stats, "avg_power_watts"), 0),
      count |-> IF stats = <<>> THEN NULL ELSE stats[1].count]

\* a diff box showing the dash
NoDiffBox == [direction |-> "neutral", abs |-> NULL, pct |-> NULL]

\* variant of formatDiffWithArrow that takes the arrow from the percentage
formatDiffWithArrow_byPct(absoluteVal, pctVal, absDigits) ==
  IF ~IsVal(absoluteVal) THEN NoDiffBox
  ELSE [direction |-> IF IsVal(pctVal) /\ pctVal.n > 0 THEN "more"
                      ELSE IF IsVal(pctVal) /\ pctVal.n < 0 THEN "less" ELSE "neutral",
        abs |-> FmtN(RAbs(absoluteVal), absDigits),
        pct |-> IF IsVal(pctVal) THEN FmtN(RAbs(pctVal), 1) ELSE NULL]

\* formatDiffWithArrow(absoluteVal, pctVal, absDigits, absSuffix) as setDiffBox
\* writes it: the arrow, the magnitude, and the magnitude of the percentage
formatDiffWithArrow(absoluteVal, pctVal, absDigits) ==
  IF ~IsVal(absoluteVal) THEN NoDiffBox
  ELSE [direction |-> IF absoluteVal.n > 0 THEN "more"
                      ELSE IF absoluteVal.n < 0 THEN "less" ELSE "neutral",
        abs |-> FmtN(RAbs(absoluteVal), absDigits),
        pct |-> IF IsVal(pctVal) THEN FmtN(RAbs(pctVal), 1) ELSE NULL]

\* ((b - a) / a) * 100
PctOf(a, b) == RMul(RDiv(RSub(b, a), a), Num(100))

\* variant of renderDiff whose percentages are taken over Period B
renderDiff_overB(statsA, statsB, rangeA, rangeB, costPerKwh) ==
  LET a == StatsMember(statsA, "energy_used_kwh")
      b == StatsMember(statsB, "energy_used_kwh")
      diffKwh == IF IsVal(a) /\ IsVal(b) THEN RSub(b, a) ELSE NoVal
      diffPct == IF IsVal(a) /\ IsVal(b) /\ b.n # 0 THEN RMul(RDiv(RSub(b, a), b), Num(100)) ELSE NoVal
      diffCost == IF IsVal(diffKwh) THEN RMul(diffKwh, costPerKwh) ELSE NoVal
      daysA == daysInRange(rangeA)
      daysB == daysInRange(rangeB)
      dailyAvgA == IF IsVal(a) /\ daysA > 0 THEN RDiv(a, Num(daysA)) ELSE NoVal
      dailyAvgB == IF IsVal(b) /\ daysB > 0 THEN RDiv(b, Num(daysB)) ELSE NoVal
      diffDailyAvg == IF IsVal(dailyAvgA) /\ IsVal(dailyAvgB)
                        THEN RSub(dailyAvgB, dailyAvgA) ELSE NoVal
      dailyAvgPct == IF IsVal(dailyAvgA) /\ dailyAvgB.n # 0 /\ IsVal(dailyAvgB)
                       THEN RMul(RDiv(RSub(dailyAvgB, dailyAvgA), dailyAvgB), Num(100)) ELSE NoVal
      avgA == StatsMember(statsA, "avg_power_watts")
      avgB == StatsMember(statsB, "avg_power_watts")
      diffPowerAvg == IF IsVal(avgA) /\ IsVal(avgB) THEN RSub(avgB, avgA) ELSE NoVal
      powerPct == IF IsVal(avgA) /\ avgB.n # 0 /\ IsVal(avgB)
                    THEN RMul(RDiv(RSub(avgB, avgA), avgB), Num(100)) ELSE NoVal
      costA == IF IsVal(a) THEN RMul(a, costPerKwh) ELSE NoVal
      costB == IF IsVal(b) THEN RMul(b, costPerKwh) ELSE NoVal
      costPct == IF IsVal(costA) /\ costB.n # 0 /\ IsVal(costB)
                   THEN RMul(RDiv(RSub(costB, costA), costB), Num(100)) ELSE NoVal
      avgCostPerDayA == IF IsVal(costA) /\ daysA > 0 THEN RDiv(costA, Num(daysA)) ELSE NoVal
      avgCostPerDayB == IF IsVal(costB) /\ daysB > 0 THEN RDiv(costB, Num(daysB)) ELSE NoVal
      diffCostPerDay == IF IsVal(avgCostPerDayA) /\ IsVal(avgCostPerDayB)
                          THEN RSub(avgCostPerDayB, avgCostPerDayA) ELSE NoVal
      costPerDayPct == IF IsVal(avgCostPerDayA) /\ avgCostPerDayB.n # 0 /\ IsVal(avgCostPerDayB)
                         THEN RMul(RDiv(RSub(avgCostPerDayB, avgCostPerDayA), avgCostPerDayB), Num(100))
                         ELSE NoVal
  IN [energy |-> [abs |-> diffKwh, pct |-> diffPct],
      dailyAvg |-> [abs |-> diffDailyAvg, pct |-> dailyAvgPct],
      powerAvg |-> [abs |-> diffPowerAvg, pct |-> powerPct],
      cost |-> [abs |-> diffCost, pct |-> costPct],
      costPerDay |-> [abs |-> diffCostPerDay, pct |-> costPerDayPct]]

\* renderDiff(statsA, statsB, rangeA, rangeB): the values it computes for the
\* five diff boxes
renderDiff(statsA, statsB, rangeA, rangeB, costPerKwh) ==
  LET a == StatsMember(statsA, "energy_used_kwh")
      b == StatsMember(statsB, "energy_used_kwh")
      diffKwh == IF IsVal(a) /\ IsVal(b) THEN RSub(b, a) ELSE NoVal
      diffPct == IF IsVal(a) /\ IsVal(b) /\ a.n # 0 THEN PctOf(a, b) ELSE NoVal
      diffCost == IF IsVal(diffKwh) THEN RMul(diffKwh, costPerKwh) ELSE NoVal
      daysA == daysInRange(rangeA)
      daysB == daysInRange(rangeB)
      dailyAvgA == IF IsVal(a) /\ daysA > 0 THEN RDiv(a, Num(daysA)) ELSE NoVal
      dailyAvgB == IF IsVal(b) /\ daysB > 0 THEN RDiv(b, Num(daysB)) ELSE NoVal
      diffDailyAvg == IF IsVal(dailyAvgA) /\ IsVal(dailyAvgB)
                        THEN RSub(dailyAvgB, dailyAvgA) ELSE NoVal
      dailyAvgPct == IF IsVal(dailyAvgA) /\ dailyAvgA.n # 0 /\ IsVal(dailyAvgB)
                       THEN PctOf(dailyAvgA, dailyAvgB) ELSE NoVal
      avgA == StatsMember(statsA, "avg_power_watts")
      avgB == StatsMember(statsB, "avg_power_watts")
      diffPowerAvg == IF IsVal(avgA) /\ IsVal(avgB) THEN RSub(avgB, avgA) ELSE NoVal
      powerPct == IF IsVal(avgA) /\ avgA.n # 0 /\ IsVal(avgB)
                    THEN PctOf(avgA, avgB) ELSE NoVal
      costA == IF IsVal(a) THEN RMul(a, costPerKwh) ELSE NoVal
      costB == IF IsVal(b) THEN RMul(b, costPerKwh) ELSE NoVal
      costPct == IF IsVal(costA) /\ costA.n # 0 /\ IsVal(costB)
                   THEN PctOf(costA, costB) ELSE NoVal
      avgCostPerDayA == IF IsVal(costA) /\ daysA > 0 THEN RDiv(costA, Num(daysA)) ELSE NoVal
      avgCostPerDayB == IF IsVal(costB) /\ daysB > 0 THEN RDiv(costB, Num(daysB)) ELSE NoVal
      diffCostPerDay == IF IsVal(avgCostPerDayA) /\ IsVal(avgCostPerDayB)
                          THEN RSub(avgCostPerDayB, avgCostPerDayA) ELSE NoVal
      costPerDayPct == IF IsVal(avgCostPerDayA) /\ avgCostPerDayA.n # 0 /\ IsVal(avgCostPerDayB)
                         THEN PctOf(avgCostPerDayA, avgCostPerDayB) ELSE NoVal
  IN [energy |-> [abs |-> diffKwh, pct |-> diffPct],
      dailyAvg |-> [abs |-> diffDailyAvg, pct |-> dailyAvgPct],
      powerAvg |-> [abs |-> diffPowerAvg, pct |-> powerPct],
      cost |-> [abs |-> diffCost, pct |-> costPct],
      costPerDay |-> [abs |-> diffCostPerDay, pct |-> costPerDayPct]]

\* the five metrics of a comparison
Metrics == {"energy", "dailyAvg", "powerAvg", "cost", "costPerDay"}

\* digits setDiffBox is called with for each box
DiffDigits(m) == IF m = "powerAvg" THEN 0 ELSE 2

\* the five setDiffBox calls of renderDiff and its diff-arrow element
DiffBoxes(values) ==
  [boxes |-> [m \in Metrics |->
                formatDiffWithArrow(values[m].abs, values[m].pct, DiffDigits(m))],
   arrow |-> IF IsVal(values.energy.abs) /\ values.energy.abs.n < 0 THEN "less"
             ELSE IF IsVal(values.energy.abs) /\ values.energy.abs.n > 0 THEN "more"
             ELSE ""]

\* the diff boxes before any comparison
NoDiff == [boxes |-> [m \in Metrics |-> NoDiffBox], arrow |-> ""]

(***************************************************************************)
(* Compare page: charts                                                    *)
(***************************************************************************)

\* calculateRollingAvg(yVals): the exponential average from index i on, ema
\* being its value so far (NoVal is null)
RECURSIVE RollingFrom(_, _, _)
RollingFrom(y, i, ema) ==
  IF i > Len(y) THEN <<>>
  ELSE LET next == IF y[i] # NULL
                     THEN IF ~IsVal(ema) THEN Num(y[i])
                          ELSE Rat(y[i] * ema.d + 9999 * ema.n, 10000 * ema.d)
                     ELSE ema
       IN <<next>> \o RollingFrom(y, i + 1, next)

calculateRollingAvg(yVals) == RollingFrom(yVals, 1, NoVal)

\* a series of whole numbers in units of 1 / scale, as numbers
AsVals(s, scale) == [i \in 1..Len(s) |-> IF s[i] = NULL THEN NoVal ELSE Rat(s[i], scale)]

\* buildChartData(rows, dailyData, movingAvgData)
buildChartData(rows, dailyData, movingAvgData) ==
  LET series == processReadingsData(rows)
  IN [xVals |-> series.xVals,
      yVals |-> AsVals(series.yVals, 1),
      eVals |-> AsVals(series.eVals, KwhScale),
      dailyEnergyVals |-> AsVals(alignDailyDataToTimestamps(dailyData, series.xVals), KwhScale),
      typicalDailyEnergyVals |->
        AsVals(alignDailyDataToTimestamps(movingAvgData, series.xVals), KwhScale),
      rollingAvgVals |-> calculateRollingAvg(series.yVals)]

\* minMax(arr): <<>> is null
minMax(arr) ==
  LET vals == {arr[i] : i \in {j \in 1..Len(arr) : IsVal(arr[j])}}
  IN IF vals = {} THEN <<>>
     ELSE <<[min |-> CHOOSE v \in vals : \A w \in vals : RLeq(v, w),
             max |-> CHOOSE v \in vals : \A w \in vals : RLeq(w, v)]>>

\* combineMinMax(acc, next)
combineMinMax(acc, next) ==
  IF next = <<>> THEN acc
  ELSE IF acc = <<>> THEN next
  ELSE <<[min |-> IF RLeq(acc[1].min, next[1].min) THEN acc[1].min ELSE next[1].min,
          max |-> IF RLeq(next[1].max, acc[1].max) THEN acc[1].max ELSE next[1].max]>>

\* if (range.min === range.max) range.max = range.min + 1
WidenRange(range) ==
  IF range # <<>> /\ range[1].min = range[1].max
    THEN <<[min |-> range[1].min, max |-> RSub(range[1].min, Num(0 - 1))]>>
    ELSE range

\* variant of getSharedScales that scales to Period A alone
getSharedScales_onlyA(dataA, dataB) ==
  LET yRange == combineMinMax(minMax(dataA.yVals), minMax(dataA.rollingAvgVals))
      y2Range == minMax(dataA.eVals)
      y3Range == combineMinMax(minMax(dataA.dailyEnergyVals),
                               minMax(dataA.typicalDailyEnergyVals))
  IN [y |-> WidenRange(yRange), y2 |-> WidenRange(y2Range), y3 |-> WidenRange(y3Range)]

\* getSharedScales(dataA, dataB): a scale that is not set is <<>>
getSharedScales(dataA, dataB) ==
  LET yRange == combineMinMax(combineMinMax(combineMinMax(minMax(dataA.yVals),
                    minMax(dataA.rollingAvgVals)), minMax(dataB.yVals)),
                    minMax(dataB.rollingAvgVals))
      y2Range == combineMinMax(minMax(dataA.eVals), minMax(dataB.eVals))
      y3Range == combineMinMax(combineMinMax(combineMinMax(minMax(dataA.dailyEnergyVals),
                     minMax(dataA.typicalDailyEnergyVals)), minMax(dataB.dailyEnergyVals)),
                     minMax(dataB.typicalDailyEnergyVals))
  IN [y |-> WidenRange(yRange), y2 |-> WidenRange(y2Range), y3 |-> WidenRange(y3Range)]

\* createChart(containerEl, data, label, sharedScales): <<>> is null
createChart(data, sharedScales) ==
  IF Len(data.xVals) = 0 THEN <<>>
  ELSE <<[data |-> data, scales |-> sharedScales,
          x |-> [min |-> data.xVals[1], max |-> Last(data.xVals)]]>>

(***************************************************************************)
(* Compare page: state and the compare run                                 *)
(***************************************************************************)

\* what the server, the clock and the visitor can hand to the compare page
NoCompareFeed == [stats |-> {}, readings |-> {}, summaries |-> {}, now |-> {}, dates |-> {}]

\* the compare page is not open
CmpClosed == <<>>

\* The page after the closure has run at the given moment: both calendars
\* hold the default ranges.  shown holds what the last finished run was
\* given, clock the moment of the load or of the last Compare click.
CmpInit(now, storage) ==
  LET today == DayKey(now)
      def == getDefaultCompareRanges(today)
  IN [calA |-> RangeCalendar(def.monthAgoWeekStart, def.monthAgoWeekEnd),
      calB |-> RangeCalendar(def.thisWeekStart, def.thisWeekEnd),
      rangeTextA |-> <<def.monthAgoWeekStart, def.monthAgoWeekEnd>>,
      rangeTextB |-> <<def.thisWeekStart, def.thisWeekEnd>>,
      error |-> "", warning |-> "", loading |-> FALSE, resultsVisible |-> FALSE,
      statA |-> NoPeriodStats, statB |-> NoPeriodStats, diff |-> NoDiff,
      uA |-> <<>>, uB |-> <<>>,
      pending |-> <<>>, shown |-> <<>>,
      storage |-> storage, today |-> today, clock |-> now, lastEvent |-> "load"]

\* showError(msg)
showError(c, msg) == [c EXCEPT !.error = msg]

\* clearError()
clearError(c) == [c EXCEPT !.error = ""]

\* showWarning(msg): the message is held by the period(s) it names
showWarning(c, msg) == [c EXCEPT !.warning = msg]

\* clearWarning()
clearWarning(c) == [c EXCEPT !.warning = ""]

\* setLoading(loading)
setLoading(c, loading) == [c EXCEPT !.loading = loading]

\* click on a day of calendar A or B: the listener and the render() after it
calendarClick(c, which, clicked) ==
  LET cal == calendarDayClick(IF which = "A" THEN c.calA ELSE c.calB, clicked)
      text == <<cal.startDate, cal.endDate>>
      complete == cal.startDate # NULL /\ cal.endDate # NULL
  IN IF which = "A"
       THEN [c EXCEPT !.calA = cal, !.rangeTextA = IF complete THEN text ELSE @]
       ELSE [c EXCEPT !.calB = cal, !.rangeTextB = IF complete THEN text ELSE @]

\* the five requests of a run, as Promise.all lists them
Requests == {"statsA", "statsB", "readingsA", "readingsB", "summary"}

\* variant of runCompare that hides the results before it reads the ranges
runCompare_hidesFirst(c, today) ==
  LET rangeA == getRange(c.calA)
      rangeB == getRange(c.calB)
      h == [c EXCEPT !.resultsVisible = FALSE, !.uA = <<>>, !.uB = <<>>]
  IN IF rangeA = <<>> \/ rangeB = <<>> THEN showError(h, "select")
     ELSE [setLoading(clearWarning(clearError(h)), TRUE) EXCEPT
             !.pending = <<[trimmedA |-> trimRangeToToday(rangeA[1], today),
                            trimmedB |-> trimRangeToToday(rangeB[1], today),
                            got |-> [r \in Requests |-> <<>>]]>>]

\* runCompare() up to its await: got holds the bodies that have arrived
runCompare(c, today) ==
  LET rangeA == getRange(c.calA)
      rangeB == getRange(c.calB)
  IN IF rangeA = <<>> \/ rangeB = <<>> THEN showError(c, "select")
     ELSE [setLoading(clearWarning(clearError(c)), TRUE) EXCEPT
             !.resultsVisible = FALSE, !.uA = <<>>, !.uB = <<>>,
             !.pending = <<[trimmedA |-> trimRangeToToday(rangeA[1], today),
                            trimmedB |-> trimRangeToToday(rangeB[1], today),
                            got |-> [r \in Requests |-> <<>>]]>>]

\* the period(s) the warning of a run names, "" for no warning
WarningFor(statsA, statsB) ==
  LET energyMissingA == ~IsVal(StatsMember(statsA, "energy_used_kwh"))
      energyMissingB == ~IsVal(StatsMember(statsB, "energy_used_kwh"))
  IN IF energyMissingA /\ energyMissingB THEN "either period"
     ELSE IF energyMissingA THEN "Period A"
     ELSE IF energyMissingB THEN "Period B"
     ELSE ""

\* variant of runCompareResolved that treats missing energy as a failure
runCompareResolved_throws(c, statsA, statsB, readingsA, readingsB, summary) ==
  IF WarningFor(statsA, statsB) # ""
    THEN [setLoading(showError(c, "failed"), FALSE) EXCEPT !.pending = <<>>]
    ELSE LET p == c.pending[1]
             costPerKwh == loadCostPerKwh(c.storage)
             dataA == buildChartData(readingsA, summary.daily, summary.moving_avg_30d)
             dataB == buildChartData(readingsB, summary.daily, summary.moving_avg_30d)
             sharedScales == getSharedScales(dataA, dataB)
         IN [setLoading(c, FALSE) EXCEPT
               !.statA = renderPeriodStats(statsA, p.trimmedA, costPerKwh),
               !.statB = renderPeriodStats(statsB, p.trimmedB, costPerKwh),
               !.diff = DiffBoxes(renderDiff(statsA, statsB, p.trimmedA, p.trimmedB, costPerKwh)),
               !.resultsVisible = TRUE,
               !.uA = createChart(dataA, sharedScales),
               !.uB = createChart(dataB, sharedScales),
               !.shown = <<[statsA |-> statsA, statsB |-> statsB,
                            rangeA |-> p.trimmedA, rangeB |-> p.trimmedB]>>,
               !.pending = <<>>]

\* runCompare() after its await, the five requests having been answered
runCompareResolved(c, statsA, statsB, readingsA, readingsB, summary) ==
  LET p == c.pending[1]
      costPerKwh == loadCostPerKwh(c.storage)
      warning == WarningFor(statsA, statsB)
      warned == IF warning # "" THEN showWarning(c, warning) ELSE c
      dataA == buildChartData(readingsA, summary.daily, summary.moving_avg_30d)
      dataB == buildChartData(readingsB, summary.daily, summary.moving_avg_30d)
      sharedScales == getSharedScales(dataA, dataB)
  IN [setLoading(warned, FALSE) EXCEPT
        !.statA = renderPeriodStats(statsA, p.trimmedA, costPerKwh),
        !.statB = renderPeriodStats(statsB, p.trimmedB, costPerKwh),
        !.diff = DiffBoxes(renderDiff(statsA, statsB, p.trimmedA, p.trimmedB, costPerKwh)),
        !.resultsVisible = TRUE,
        !.uA = createChart(dataA, sharedScales),
        !.uB = createChart(dataB, sharedScales),
        !.shown = <<[statsA |-> statsA, statsB |-> statsB,
                     rangeA |-> p.trimmedA, rangeB |-> p.trimmedB]>>,
        !.pending = <<>>]

\* variant of runCompareRejected without the finally block
runCompareRejected_keepsLoading(c) ==
  [showError(c, "failed") EXCEPT !.pending = <<>>]

\* runCompare() after its await, one of the five requests having failed
runCompareRejected(c) ==
  [setLoading(showError(c, "failed"), FALSE) EXCEPT !.pending = <<>>]

\* variant of fetchJsonResolved that renders a period as soon as its
\* statistics have arrived
fetchJsonResolved_eager(c, req, body) ==
  LET got == [c.pending[1].got EXCEPT ![req] = <<body>>]
      p == c.pending[1]
  IN IF \A r \in Requests : got[r] # <<>>
       THEN runCompareResolved(c, got.statsA[1], got.statsB[1], got.readingsA[1],
                               got.readingsB[1], got.summary[1])
       ELSE IF req = "statsA"
         THEN [c EXCEPT !.pending[1].got = got,
                        !.statA = renderPeriodStats(body, p.trimmedA, loadCostPerKwh(c.storage))]
         ELSE [c EXCEPT !.pending[1].got = got]

\* one fetchJson of the run resolves: Promise.all resolves with the fifth
fetchJsonResolved(c, req, body) ==
  LET got == [c.pending[1].got EXCEPT ![req] = <<body>>]
  IN IF \A r \in Requests : got[r] # <<>>
       THEN runCompareResolved(c, got.statsA[1], got.statsB[1], got.readingsA[1],
                               got.readingsB[1], got.summary[1])
       ELSE [c EXCEPT !.pending[1].got = got]

\* one fetchJson of the run rejects: Promise.all rejects at once
fetchJsonRejected(c, req) == runCompareRejected(c)

CmpStep(c) == cmp' = c /\ UNCHANGED <<desk, mob, env>>

\* the bodies the server can answer a request with
BodiesOf(req) ==
  CASE req \in {"statsA", "statsB"} -> env.compare.stats
    [] req \in {"readingsA", "readingsB"} -> env.compare.readings
    [] OTHER -> env.compare.summaries

\* one of the requests of a run is answered
RequestResolves ==
  /\ cmp.pending # <<>>
  /\ \E req \in Requests :
       /\ cmp.pending[1].got[req] = <<>>
       /\ \E body \in BodiesOf(req) :
            CmpStep(fetchJsonResolved(
              [cmp EXCEPT !.lastEvent =
                 IF \A r \in Requests \ {req} : cmp.pending[1].got[r] # <<>>
                   THEN "resolved" ELSE "answer"], req, body))

\* one of the requests of a run fails
RequestRejects ==
  /\ cmp.pending # <<>>
  /\ \E req \in Requests :
       /\ cmp.pending[1].got[req] = <<>>
       /\ CmpStep(fetchJsonRejected([cmp EXCEPT !.lastEvent = "rejected"], req))


\* a day of calendar A or B is clicked
CalendarDayClick ==
  \E click \in env.compare.dates :
    CmpStep(calendarClick([cmp EXCEPT !.lastEvent = "calendar"], click[1], click[2]))

\* btn-compare is clicked; the button is disabled while a run is loading
BtnCompareClick ==
  /\ ~cmp.loading
  /\ \E now \in env.compare.now :
       /\ now >= cmp.clock
       /\ CmpStep(runCompare([cmp EXCEPT !.lastEvent = "compare", !.today = DayKey(now),
                                         !.clock = now], DayKey(now)))

\* the five requests of a run are answered
CompareResolves ==
  /\ cmp.pending # <<>>
  /\ \E statsA \in env.compare.stats, statsB \in env.compare.stats,
        readingsA \in env.compare.readings, readingsB \in env.compare.readings,
        summary \in env.compare.summaries :
       CmpStep(runCompareResolved([cmp EXCEPT !.lastEvent = "resolved"],
                                  statsA, statsB, readingsA, readingsB, summary))

\* one of the five requests of a run fails
CompareRejects ==
  /\ cmp.pending # <<>>
  /\ CmpStep(runCompareRejected([cmp EXCEPT !.lastEvent = "rejected"]))

(***************************************************************************)
(* Specifications                                                          *)
(***************************************************************************)

Hour == 3600000

\* an environment for pages that are not open: nothing to answer or enter
ServerIdle ==
  [readings |-> {}, summaries |-> {}, stats |-> {}, latest |-> {}, days |-> {},
   plot |-> {}, now |-> {}, px |-> {}, compare |-> NoCompareFeed, typed |-> {}]

\* responses of GET readings the dashboard specification draws from
DeskFeed ==
  { <<>>,
    <<Row(Hour, 100, 1000), Row(2 * Hour, 200, 1200)>>,
    <<Row(Hour, 100, 1000), Row(2 * Hour, 200, 1200), Row(3 * Hour, NULL, 1300)>>,
    <<Row(Hour, NULL, 1000), Row(2 * Hour, NULL, 1200), Row(3 * Hour, NULL, 1100)>> }

InitDesktop ==
  /\ cmp = CmpClosed
  /\ env = [ServerIdle EXCEPT !.readings = DeskFeed]
  /\ desk \in {DeskInit(s) : s \in StoredCosts}
  /\ mob = MobInit

NextDesktop ==
  \/ \E o \in Origins : FetchReadingsResolves(o)
  \/ \E o \in Origins : FetchReadingsFails(o)
  \/ PollTimerFires
  \/ BtnRefreshClick
  \/ BtnLastHourClick
  \/ BtnLastDayClick
  \/ BtnResetClick
  \/ PeriodSummariesSettle

SpecDesktop == InitDesktop /\ [][NextDesktop]_vars

\* responses of GET readings the poll specification draws from
PollFeed ==
  { <<>>, <<Row(Hour, 100, 1000), Row(2 * Hour, 200, 1200)>> }

InitPoll ==
  /\ cmp = CmpClosed
  /\ env = [ServerIdle EXCEPT !.readings = PollFeed]
  /\ desk \in {DeskInit(s) : s \in StoredCosts}
  /\ mob = MobInit

NextPoll ==
  \/ \E o \in Origins : FetchReadingsResolves(o)
  \/ \E o \in Origins : FetchReadingsFails(o)
  \/ PollTimerFires
  \/ BtnRefreshClick
  \/ PeriodSummariesSettle

\* the poll loop and the refresh button, where every fetch eventually
\* settles and every timer eventually fires
LivePoll ==
  /\ InitPoll /\ [][NextPoll]_vars
  /\ \A o \in Origins : WF_vars(FetchSettles(o))
  /\ WF_vars(PollTimerFires)

\* the series construction on every response within the bounds: the service
\* answers every request of one run with the same rows
InitSeries ==
  /\ cmp = CmpClosed
  /\ env \in {[ServerIdle EXCEPT !.readings = {rows}] : rows \in AllRows}
  /\ desk = DeskInit(<<>>)
  /\ mob = MobInit

NextSeries ==
  \/ \E o \in {"init", "poll"} : FetchReadingsResolves(o)
  \/ PollTimerFires

SpecSeries == InitSeries /\ [][NextSeries]_vars

\* timestamps (ms), power (W) and cumulative energy of the window
\* statistics check: two samples within one second, a gap of three seconds,
\* and a power with which energies 1 and 3 are consistent (2400 W from
\* 1000 to 4000)
StatTimes == {1000, 1500, 4000}

StatPowers == {NULL, 2400, 2880}

StatEnergies == {NULL, 1, 3}

StatRowSet == [t : StatTimes, p : StatPowers, e : StatEnergies]

StatRows ==
  {rows \in UNION {[1..k -> StatRowSet] : k \in 0..MaxRows} : Ascending(rows)}

\* the times the edges of a mouse selection map to in the statistics check
StatPlot == {1000, 1500, 2000, 3000, 4000}

\* window statistics on every response within the bounds, every window
\* drawn with the mouse
InitStats ==
  /\ cmp = CmpClosed
  /\ env \in {[ServerIdle EXCEPT !.readings = {rows}, !.plot = StatPlot] :
               rows \in StatRows}
  /\ desk = DeskInit(<<>>)
  /\ mob = MobInit

NextStats ==
  \/ FetchReadingsResolves("init")
  \/ MouseSelect

SpecStats == InitStats /\ [][NextStats]_vars

\* responses without any cumulative energy, for the trapezoid fallback:
\* three distinct seconds, one of them sampled twice
FallbackTimes == {1000, 1500, 2000, 4000}

FallbackRows ==
  {rows \in UNION {[1..k -> [t : FallbackTimes, p : StatPowers, e : {NULL}]] :
                     k \in 0..MaxSamples} : Ascending(rows)}

\* the times the edges of a mouse selection map to in the fallback check
FallbackPlot == {1000, 2000, 4000}

InitFallback ==
  /\ cmp = CmpClosed
  /\ env \in {[ServerIdle EXCEPT !.readings = {rows}, !.plot = FallbackPlot] :
               rows \in FallbackRows}
  /\ desk = DeskInit(<<>>)
  /\ mob = MobInit

SpecFallback == InitFallback /\ [][NextStats]_vars

\* synthetic constant-power responses: samples at strictly increasing whole
\* seconds, power P throughout, and cumulative energy that grows by
\* P / 3600 thousandths of a kWh per second from a first value
ConstTimes == {1000, 2000, 3000, 4000}

ConstPowers == {3600, 7200}

ConstFirstEnergies == {0, 5}

ConstTimeSeqs ==
  {ts \in UNION {[1..k -> ConstTimes] : k \in 2..MaxSamples} :
     \A i \in 1..(Len(ts) - 1) : ts[i] < ts[i + 1]}

ConstRows ==
  {[i \in 1..Len(ts) |->
      Row(ts[i], p, e0 + (p \div 3600) * ((ts[i] - ts[1]) \div 1000))] :
     ts \in ConstTimeSeqs, p \in ConstPowers, e0 \in ConstFirstEnergies}

InitConst ==
  /\ cmp = CmpClosed
  /\ env \in {[ServerIdle EXCEPT !.readings = {rows}, !.plot = StatPlot] :
               rows \in ConstRows}
  /\ desk = DeskInit(<<>>)
  /\ mob = MobInit

SpecConst == InitConst /\ [][NextStats]_vars

\* responses of GET readings the selection specification draws from
SelectFeed ==
  { <<>>,
    <<Row(2 * Hour, 200, 1200), Row(3 * Hour, NULL, 1300)>>,
    <<Row(Hour, 100, 1000), Row(2 * Hour, 200, 1200), Row(3 * Hour, NULL, 1300)>> }

\* the times pointer positions map to, NULL when posToVal is not finite
SelectPlot == {NULL, Hour \div 2, 2 * Hour + 500, 4 * Hour}

\* the horizontal pixel positions of pointer events on the plot
SelectPx == {10}

\* the clock when a calendar preset is clicked
SelectNow == {2 * Hour + 1800000}

\* every way of committing and clearing a selection while the refresh
\* button replaces the series underneath; the first poll stays unanswered
InitSelect ==
  /\ cmp = CmpClosed
  /\ env = [ServerIdle EXCEPT !.readings = SelectFeed, !.plot = SelectPlot,
                              !.now = SelectNow, !.px = SelectPx]
  /\ desk = DeskInit(<<>>)
  /\ mob = MobInit

NextSelect ==
  \/ \E o \in {"init", "refresh"} : FetchReadingsResolves(o)
  \/ BtnRefreshClick
  \/ MouseSelect
  \/ PointerSelectStart
  \/ PointerSelectEnd
  \/ PointerSelectCancel
  \/ ChartDblClick
  \/ BtnLastHourClick
  \/ BtnLastDayClick
  \/ BtnLastWeekClick
  \/ BtnLastMonthClick
  \/ BtnLastYearClick
  \/ BtnResetClick

SpecSelect == InitSelect /\ [][NextSelect]_vars

\* responses of GET readings the drag specification draws from
DragFeed ==
  { <<>>,
    <<Row(Hour, 100, 1000), Row(2 * Hour, 200, 1200)>>,
    <<Row(Hour, 100, 1000), Row(2 * Hour, 200, 1200), Row(3 * Hour, 300, 1500)>> }

\* the times pointer positions map to: the first sample, a time between the
\* samples, the last sample of the shorter response, a time after every
\* sample, and NULL when posToVal is not finite
DragPlot == {NULL, Hour, Hour + 500, 2 * Hour, 4 * Hour}

\* the horizontal positions of pointer events, NULL when the plot has no
\* width
DragPx == {NULL, 10, 30}

\* touch drags with moves, foreign pointers and cancels, between resets and
\* a preset, on the series of the first response; the first poll stays
\* unanswered
InitDrag ==
  /\ cmp = CmpClosed
  /\ env = [ServerIdle EXCEPT !.readings = DragFeed, !.plot = DragPlot,
                              !.px = DragPx]
  /\ desk = DeskInit(<<>>)
  /\ mob = MobInit

NextDrag ==
  \/ FetchReadingsResolves("init")
  \/ PointerSelectStart
  \/ PointerSelectMove
  \/ PointerSelectEnd
  \/ PointerSelectCancel
  \/ BtnLastHourClick
  \/ BtnResetClick

SpecDrag == InitDrag /\ [][NextDrag]_vars

\* responses of GET readings the preset specification draws from: none, a
\* single sample, two samples an hour apart
PresetFeed ==
  { <<>>,
    <<Row(Hour, 100, 1000)>>,
    <<Row(Hour, 100, 1000), Row(2 * Hour, 200, 1200)>> }

\* the clock when a calendar preset is clicked: within the data on Thursday
\* the 1st, and on Monday the 5th, after the Sunday that follows the data
PresetNow == {Hour + 1800000, 4 * 86400000 + Hour}

\* the times the edges of a mouse selection map to in the preset check
PresetPlot == {Hour, 2 * Hour}

\* presets, reset and double-click between mouse selections and refreshes
\* that replace or empty the series; the first poll stays unanswered
InitPreset ==
  /\ cmp = CmpClosed
  /\ env = [ServerIdle EXCEPT !.readings = PresetFeed, !.plot = PresetPlot,
                              !.now = PresetNow]
  /\ desk = DeskInit(<<>>)
  /\ mob = MobInit

NextPreset ==
  \/ \E o \in {"init", "refresh"} : FetchReadingsResolves(o)
  \/ BtnRefreshClick
  \/ MouseSelect
  \/ BtnLastHourClick
  \/ BtnLastDayClick
  \/ BtnLastWeekClick
  \/ BtnLastMonthClick
  \/ BtnLastYearClick
  \/ BtnResetClick
  \/ ChartDblClick

SpecPreset == InitPreset /\ [][NextPreset]_vars

\* the chart detail: one body each for stats and latest_reading
InitMobile ==
  /\ cmp = CmpClosed
  /\ env = [readings |-> MobRows, summaries |-> MobSummaries,
            stats |-> {st \in MobStats : st # <<>> /\ st[1].count > 0},
            latest |-> MobLatest \ {NULL}, days |-> {7},
            plot |-> {}, now |-> {}, px |-> {}, compare |-> NoCompareFeed, typed |-> {}]
  /\ mob = MobInit
  /\ desk = DeskInit(<<>>)

\* the page load: every body of stats and latest_reading, both periods
InitInitial ==
  /\ cmp = CmpClosed
  /\ env = [readings |-> MobRows, summaries |-> MobSummaries,
            stats |-> MobStats, latest |-> MobLatest, days |-> DaysChoices,
            plot |-> {}, now |-> {}, px |-> {}, compare |-> NoCompareFeed, typed |-> {}]
  /\ mob = MobInit
  /\ desk = DeskInit(<<>>)

NextInitial ==
  \/ LatestSettles
  \/ StatsSettles
  \/ SummarySettles

NextMobile ==
  \/ NextInitial
  \/ handleDaysChange
  \/ ShowChartClick
  \/ HideChartClick
  \/ ChartLoadResolves
  \/ ChartLoadFails
  \/ ChartLoadAborted

SpecMobile == InitMobile /\ [][NextMobile]_vars

\* cancelling a chart load: one body for every request
InitAbort ==
  /\ cmp = CmpClosed
  /\ env = [readings |-> {<<Row(6 * Day, 50, 900), Row(7 * Day, 100, 1000)>>},
            summaries |-> {su \in MobSummaries : su.avg_daily # NULL},
            stats |-> {st \in MobStats : st # <<>> /\ st[1].count > 0},
            latest |-> MobLatest \ {NULL}, days |-> {7},
            plot |-> {}, now |-> {}, px |-> {}, compare |-> NoCompareFeed, typed |-> {}]
  /\ mob = MobInit
  /\ desk = DeskInit(<<>>)

SpecAbort == InitAbort /\ [][NextMobile]_vars

\* the page load alone: the chart is never opened
SpecInitial == InitInitial /\ [][NextInitial \/ handleDaysChange]_vars

\* the stats member of the body of GET stats on the compare page: two full
\* periods, a period with a meter reset (negative delta), an idle period, a
\* period whose cumulative data is missing, and a body without stats
CompareStats ==
  { <<[energy_used_kwh |-> Num(10), avg_power_watts |-> Num(250), count |-> 5]>>,
    <<[energy_used_kwh |-> Num(8), avg_power_watts |-> Num(100), count |-> 5]>>,
    <<[energy_used_kwh |-> Num(0 - 2), avg_power_watts |-> Num(100), count |-> 3]>>,
    <<[energy_used_kwh |-> Num(0), avg_power_watts |-> Num(0), count |-> 2]>>,
    <<[energy_used_kwh |-> NoVal, avg_power_watts |-> Num(100), count |-> 3]>>,
    <<>> }

\* bodies of GET readings on the compare page
CompareRows == {<<>>, <<Row(10 * Day, 100, 1000), Row(10 * Day + Hour, 250, 1200)>>}

\* bodies of GET energy_summary on the compare page
CompareSummaries ==
  {[daily |-> <<Bucket(10 * Day, 5000)>>, moving_avg_30d |-> <<Bucket(10 * Day, 6000)>>]}

\* the moment at which the page is loaded and used, 01:00 on a Tuesday
CompareNow == {12 * Day + Hour}

\* days the visitor clicks, each with its calendar: the day after tomorrow in
\* calendar B
CompareDates == {<<"B", 14>>}

\* stored costs on the compare page
CompareCosts == {<<>>, <<"0">>}

InitCompare ==
  /\ desk = DeskInit(<<>>)
  /\ mob = MobInit
  /\ env = [ServerIdle EXCEPT !.compare =
              [stats |-> CompareStats, readings |-> CompareRows,
               summaries |-> CompareSummaries, now |-> CompareNow,
               dates |-> CompareDates]]
  /\ cmp \in {CmpInit(now, storage) : now \in CompareNow, storage \in CompareCosts}

NextCompare ==
  \/ CalendarDayClick
  \/ BtnCompareClick
  \/ CompareResolves
  \/ CompareRejects

SpecCompare == InitCompare /\ [][NextCompare]_vars

\* bodies of GET readings the scales specification draws from: none, one
\* sample, two samples, a sample without power, a sample without energy
ScaleRows ==
  { <<>>,
    <<Row(10 * Day, 100, 1000)>>,
    <<Row(10 * Day, 100, 1000), Row(10 * Day + Hour, 250, 1200)>>,
    <<Row(10 * Day, NULL, 1000)>>,
    <<Row(10 * Day + Hour, 250, NULL)>> }

\* bodies of GET energy_summary the scales specification draws from
ScaleSummaries ==
  { [daily |-> <<Bucket(10 * Day, 5000)>>, moving_avg_30d |-> <<Bucket(10 * Day, 6000)>>],
    [daily |-> <<Bucket(10 * Day, 5000)>>, moving_avg_30d |-> <<>>],
    [daily |-> <<>>, moving_avg_30d |-> <<>>] }

\* compare runs over many series and one statistics body
InitScales ==
  /\ desk = DeskInit(<<>>)
  /\ mob = MobInit
  /\ env = [ServerIdle EXCEPT !.compare =
              [stats |-> {<<[energy_used_kwh |-> Num(10), avg_power_watts |-> Num(250),
                             count |-> 5]>>},
               readings |-> ScaleRows, summaries |-> ScaleSummaries,
               now |-> CompareNow, dates |-> CompareDates]]
  /\ cmp \in {CmpInit(now, <<>>) : now \in CompareNow}

SpecScales == InitScales /\ [][NextCompare]_vars

\* compare runs whose five requests are answered one at a time
RunStats ==
  { <<[energy_used_kwh |-> Num(10), avg_power_watts |-> Num(250), count |-> 5]>>, <<>> }

InitRun ==
  /\ desk = DeskInit(<<>>)
  /\ mob = MobInit
  /\ env = [ServerIdle EXCEPT !.compare =
              [stats |-> RunStats, readings |-> CompareRows,
               summaries |-> CompareSummaries, now |-> CompareNow, dates |-> {}]]
  /\ cmp \in {CmpInit(now, <<>>) : now \in CompareNow}

NextRun ==
  \/ BtnCompareClick
  \/ RequestResolves
  \/ RequestRejects

SpecRun == InitRun /\ [][NextRun]_vars

\* texts the visitor enters into cost-input
CostTexts == {"0.25", "0", "-1", "abc"}

\* the cost input between page loads; the first poll stays unanswered
\* the days clicked in the calendar check: a day of last week, yesterday
\* and tomorrow, in either calendar
CalendarDates == {<<w, d>> : w \in {"A", "B"}, d \in {3, 11, 13}}

\* day clicks in both calendars and Compare clicks that are never answered
InitCalendar ==
  /\ desk = DeskInit(<<>>)
  /\ mob = MobInit
  /\ env = [ServerIdle EXCEPT !.compare =
              [NoCompareFeed EXCEPT !.now = CompareNow, !.dates = CalendarDates]]
  /\ cmp \in {CmpInit(now, <<>>) : now \in CompareNow}

NextCalendar ==
  \/ CalendarDayClick
  \/ BtnCompareClick

SpecCalendar == InitCalendar /\ [][NextCalendar]_vars

InitCost ==
  /\ cmp = CmpClosed
  /\ env = [ServerIdle EXCEPT !.readings = {<<>>, <<Row(Hour, 100, 1000)>>},
                              !.typed = CostTexts]
  /\ desk \in {DeskInit(s) : s \in StoredCosts}
  /\ mob = MobInit

NextCost ==
  \/ FetchReadingsResolves("init")
  \/ FetchReadingsFails("init")
  \/ CostInputChange
  \/ PageReload
  \/ PeriodSummariesSettle

SpecCost == InitCost /\ [][NextCost]_vars

(***************************************************************************)
(* Properties: desktop poll loop and readings fetch                        *)
(***************************************************************************)

InFlight(origin) == {i \in 1..Len(desk.inflight) : desk.inflight[i] = origin}

PollFetching == InFlight("poll") # {}

\* poll cycles alive: a poll fetch in flight or a poll timer pending
PollChains == Cardinality(InFlight("poll")) + (IF desk.pollTimer THEN 1 ELSE 0)

\* C4: the poll timer is set only once the cycle's fetch has settled, so at
\* most one poll fetch is in flight; no poll chain runs while the initial
\* fetch is in flight and exactly one runs after it settled, whatever its
\* outcome.
C4_OnePollChain ==
  /\ Cardinality(InFlight("poll")) <= 1
  /\ ~(desk.pollTimer /\ PollFetching)
  /\ PollChains = (IF InFlight("init") # {} THEN 0 ELSE 1)

\* a poll cycle has failed and rescheduled while a manual refresh is in flight
C4_Witness ==
  /\ desk.pollTimer
  /\ desk.lastEvent = "fetch_fail"
  /\ InFlight("refresh") # {}

\* C5: if every fetch settles, a poll fetch in flight always leads to the
\* next timer and a pending timer always leads to the next poll fetch,
\* failed cycles included.
C5_PollNeverStops ==
  /\ PollFetching ~> desk.pollTimer
  /\ desk.pollTimer ~> PollFetching

\* the timer is pending right after a cycle whose fetch failed
C5_Witness ==
  /\ desk.pollTimer
  /\ desk.lastEvent = "fetch_fail"
  /\ desk.statusConn = "Offline"
  /\ desk.inflight = <<>>

\* C6: a failed readings fetch sets the connection status to Offline and
\* leaves data, xVals, yVals, eVals and the committed selection as they were.
C6_FailureKeepsData ==
  [][desk'.lastEvent = "fetch_fail" =>
       /\ desk'.statusConn = "Offline"
       /\ desk'.data = desk.data
       /\ desk'.xVals = desk.xVals
       /\ desk'.yVals = desk.yVals
       /\ desk'.eVals = desk.eVals
       /\ desk'.selection = desk.selection]_vars

\* a fetch has failed with a series loaded and a selection committed
C6_Witness ==
  /\ desk.lastEvent = "fetch_fail"
  /\ desk.statusConn = "Offline"
  /\ Len(desk.data) > 0
  /\ desk.selection.start # NULL

\* C8: between handlers data, xVals and yVals are those of one response:
\* data is the series of the last parsed response, xVals and yVals are its
\* two columns, and the three have the same length.
C8_SeriesReplacedWhole ==
  /\ desk.data = SeriesData(desk.rows)
  /\ Len(desk.xVals) = Len(desk.data)
  /\ Len(desk.yVals) = Len(desk.data)
  /\ \A i \in 1..Len(desk.data) :
       /\ desk.xVals[i] = desk.data[i][1] \div 1000
       /\ desk.yVals[i] = desk.data[i][2]

\* a derived series is on screen while two fetches are in flight
C8_Witness ==
  /\ UsedDerived(desk.rows)
  /\ Len(desk.data) < Len(desk.rows)
  /\ Len(desk.inflight) = 2

\* C9: after a successful fetch xVals, yVals and eVals have the same length
\* and index i of each belongs to one reading of the response.
C9_SeriesAligned ==
  /\ Len(desk.xVals) = Len(desk.yVals)
  /\ Len(desk.xVals) = Len(desk.eVals)
  /\ \A i \in 1..Len(desk.xVals) :
       \E k \in 1..Len(desk.rows) :
         /\ desk.data[i][1] = desk.rows[k].t
         /\ desk.eVals[i] = desk.rows[k].e

\* C10: when every row has null power, each adjacent pair with both energies
\* present and advancing time yields a point at the later timestamp whose
\* power is the energy delta times 3.6e9 over the time delta, or 0 when the
\* energy decreased.
C10_DerivedPower ==
  LET r == desk.rows
  IN (Len(r) > 0 /\ \A i \in 1..Len(r) : r[i].p = NULL) =>
       \A i \in 2..Len(r) :
         (r[i - 1].e # NULL /\ r[i].e # NULL /\ r[i].t > r[i - 1].t) =>
           \E k \in 1..Len(desk.data) :
             /\ desk.data[k][1] = r[i].t
             /\ desk.xVals[k] = r[i].t \div 1000
             /\ desk.yVals[k] = desk.data[k][2]
             /\ IF r[i].e >= r[i - 1].e
                  THEN desk.yVals[k] * (r[i].t - r[i - 1].t)
                         = (r[i].e - r[i - 1].e) * 3600000
                  ELSE desk.yVals[k] = 0

\* a derived point for a pair whose cumulative energy decreased
C10_Witness ==
  /\ Len(desk.rows) = 2
  /\ desk.rows[1].p = NULL /\ desk.rows[2].p = NULL
  /\ desk.rows[1].e # NULL /\ desk.rows[2].e # NULL
  /\ desk.rows[2].e < desk.rows[1].e
  /\ desk.rows[2].t > desk.rows[1].t
  /\ desk.yVals = <<0>>

(***************************************************************************)
(* Properties: mobile dashboard                                            *)
(***************************************************************************)

\* chart loads in flight whose controller has not been aborted
LiveLoads == {i \in 1..Len(mob.loads) : ~mob.loads[i].aborted}

\* C1: a chart load is started only after the load still in flight has been
\* aborted, so no two loads are in flight with neither of them aborted.
C1_EarlierLoadCancelled == Cardinality(LiveLoads) <= 1

\* C2: once every chart load has settled and the load started last has
\* succeeded, the series on display are the ones built from its response.
C2_NewestLoadShown ==
  (mob.loads = <<>> /\ mob.newest.state = "ok") =>
    LET rows == mob.newest.rows
        x == IF Len(rows) = 0 THEN <<>> ELSE processReadingsData(rows).xVals
    IN /\ mob.xVals = x
       /\ mob.yVals = (IF Len(rows) = 0 THEN <<>> ELSE processReadingsData(rows).yVals)
       /\ mob.eVals = (IF Len(rows) = 0 THEN <<>> ELSE processReadingsData(rows).eVals)
       /\ mob.dailyEnergyVals = alignDailyDataToTimestamps(mob.newest.daily, x)

\* C3: the failure of one request of loadInitialData leaves the regions of
\* the other two requests as their own fetches left them: a failed
\* latest_reading changes neither the statistics nor the daily table, a
\* failed stats changes neither the current-reading row nor the daily
\* table, a failed energy_summary changes neither the current-reading row
\* nor the statistics.
C3_RegionsIsolated ==
  [][/\ mob'.lastEvent = "latest_fail" =>
          mob'.statsBlock = mob.statsBlock /\ mob'.dailyTable = mob.dailyTable
     /\ mob'.lastEvent = "stats_fail" =>
          mob'.statCurrentPower = mob.statCurrentPower
            /\ mob'.dailyTable = mob.dailyTable
     /\ mob'.lastEvent = "summary_fail" =>
          mob'.statCurrentPower = mob.statCurrentPower
            /\ mob'.statsBlock = mob.statsBlock]_vars

\* C7: the completion of an aborted chart load changes neither the
\* connection status, nor the series, nor the daily and moving-average
\* data, nor chartLoaded.
C7_AbortIsSilent ==
  [][mob'.lastEvent = "chart_aborted" =>
       /\ mob'.statusConn = mob.statusConn
       /\ mob'.xVals = mob.xVals
       /\ mob'.yVals = mob.yVals
       /\ mob'.eVals = mob.eVals
       /\ mob'.dailyEnergyVals = mob.dailyEnergyVals
       /\ mob'.typicalDailyVals = mob.typicalDailyVals
       /\ mob'.dailyEnergyData = mob.dailyEnergyData
       /\ mob'.movingAvgData = mob.movingAvgData
       /\ mob'.chartLoaded = mob.chartLoaded]_vars

\* an aborted load has completed with the page connected and a series held
C7_Witness ==
  /\ mob.lastEvent = "chart_aborted"
  /\ mob.statusConn = "Connected"
  /\ ~mob.chartLoaded
  /\ Len(mob.xVals) > 0
  /\ mob.btnShowChart = "Show chart"

(***************************************************************************)
(* Properties: derived series                                              *)
(***************************************************************************)

\* the later rows of the adjacent pairs of the last response that have both
\* energies and an advancing timestamp
GoodPairs ==
  {i \in 2..Len(desk.rows) :
     /\ desk.rows[i - 1].e # NULL
     /\ desk.rows[i].e # NULL
     /\ desk.rows[i].t > desk.rows[i - 1].t}

\* the last response has rows, no power at all, and two or more energies
EnergyOnly ==
  /\ desk.lastEvent = "fetch_ok"
  /\ Len(desk.rows) > 0
  /\ \A i \in 1..Len(desk.rows) : desk.rows[i].p = NULL
  /\ Cardinality({i \in 1..Len(desk.rows) : desk.rows[i].e # NULL}) >= 2

\* the power series holds one point per good pair, at the later timestamp
OnePointPerGoodPair ==
  /\ Len(desk.data) = Cardinality(GoodPairs)
  /\ Len(desk.yVals) = Cardinality(GoodPairs)
  /\ {desk.data[k][1] : k \in 1..Len(desk.data)} = {desk.rows[i].t : i \in GoodPairs}

Committed == desk.lastEvent = "commit"

WinStartSec == desk.selection.start \div 1000

WinEndSec == desk.selection.end \div 1000

\* the samples of the series inside the closed window of whole seconds
InWindow ==
  {i \in 1..Len(desk.xVals) :
     WinStartSec <= desk.xVals[i] /\ desk.xVals[i] <= WinEndSec}

\* the samples inside the window that carry a power value
FinitePower == {i \in InWindow : desk.yVals[i] # NULL}

\* the readings of the response inside the window that carry an energy value
EnergyInWindow ==
  {i \in 1..Len(desk.rows) :
     /\ desk.rows[i].e # NULL
     /\ WinStartSec <= desk.rows[i].t \div 1000
     /\ desk.rows[i].t \div 1000 <= WinEndSec}

RECURSIVE SumPower(_)
SumPower(S) ==
  IF S = {} THEN 0
  ELSE LET i == CHOOSE k \in S : TRUE IN desk.yVals[i] + SumPower(S \ {i})

\* twice the watt-seconds the pair (i - 1, i) adds to the trapezoidal sum
PairTwiceWs(i) ==
  IF /\ (i - 1) \in FinitePower
     /\ i \in FinitePower
     /\ desk.xVals[i] > desk.xVals[i - 1]
    THEN (desk.yVals[i] + desk.yVals[i - 1]) * (desk.xVals[i] - desk.xVals[i - 1])
    ELSE 0

RECURSIVE SumPairs(_)
SumPairs(S) ==
  IF S = {} THEN 0
  ELSE LET i == CHOOSE k \in S : TRUE IN PairTwiceWs(i) + SumPairs(S \ {i})

\* C12: statistics of a window that holds no sample of a non-empty series
\* are count 0 with avg, min, max, energy used and cost all null, and the
\* statistics display shows that after the selection was committed.
C12_EmptyWindowStats ==
  (Committed /\ Len(desk.xVals) > 0 /\ InWindow = {}) =>
    desk.stat = [energy |-> NULL, cost |-> NULL, avg |-> NULL, max |-> NULL,
                 min |-> NULL, count |-> 0]

\* C13: for every series and window the count shown is the number of
\* samples in the window that carry a power value; avg, min and max are
\* null exactly when that count is 0 and otherwise the mean (one decimal),
\* minimum and maximum of those samples.
C13_CountOfFinitePower ==
  (Committed /\ Len(desk.xVals) > 0) =>
    /\ desk.stat.count = Cardinality(FinitePower)
    /\ FinitePower = {} =>
          desk.stat.avg = NULL /\ desk.stat.min = NULL /\ desk.stat.max = NULL
    /\ FinitePower # {} =>
          /\ desk.stat.avg = RoundDiv(SumPower(FinitePower) * 10,
                                      Cardinality(FinitePower))
          /\ desk.stat.min \in {desk.yVals[i] : i \in FinitePower}
          /\ desk.stat.max \in {desk.yVals[i] : i \in FinitePower}
          /\ \A i \in FinitePower :
                desk.stat.min <= desk.yVals[i] /\ desk.yVals[i] <= desk.stat.max

\* C14: the window is closed at second granularity: the samples counted
\* are exactly those with floor(startMs/1000) <= timeSec <= floor(endMs/1000),
\* also when start and end lie in one second and a sample sits at it.
C14_ClosedSecondWindow ==
  (Committed /\ InWindow # {}) =>
    /\ desk.stat.count = Cardinality(FinitePower)
    /\ FinitePower # {} =>
          \E lo \in FinitePower, hi \in FinitePower :
            desk.stat.min = desk.yVals[lo] /\ desk.stat.max = desk.yVals[hi]

\* the first and the last reading inside the window that carry energy
FirstEnergy ==
  desk.rows[CHOOSE i \in EnergyInWindow : \A j \in EnergyInWindow : i <= j].e

LastEnergy ==
  desk.rows[CHOOSE i \in EnergyInWindow : \A j \in EnergyInWindow : i >= j].e

\* C15: when the window holds at least one non-null energy sample, energy
\* used is the last non-null energy sample in the window minus the first,
\* negative after a meter reset, and shown with three decimals.
C15_EndpointDelta ==
  (Committed /\ EnergyInWindow # {}) =>
    desk.stat.energy = RoundDiv((LastEnergy - FirstEnergy) * 1000, KwhScale)

\* the adjacent pairs inside the window with both powers and advancing time
ValidPairs ==
  {i \in InWindow :
     /\ (i - 1) \in FinitePower
     /\ i \in FinitePower
     /\ desk.xVals[i] > desk.xVals[i - 1]}

\* C16: when the window holds no non-null energy sample, energy used is
\* the trapezoidal sum over the adjacent samples in the window of
\* (p[i] + p[i-1]) / 2 * (t[i] - t[i-1]), divided by 3,600,000 and shown
\* with three decimals; a pair with a null power or without advancing time
\* adds nothing.  The sum is computable when at least one pair adds to it;
\* C17 is about the windows where none does.
C16_TrapezoidFallback ==
  (Committed /\ EnergyInWindow = {} /\ ValidPairs # {}) =>
    desk.stat.energy = RoundDiv(SumPairs(InWindow) * 1000, 2 * 3600000)

\* a window of three samples of which the first two share a second: their
\* pair is skipped and the other pair gives the energy shown
C16_Witness ==
  /\ Committed
  /\ EnergyInWindow = {}
  /\ Cardinality(InWindow) = 3
  /\ Cardinality(ValidPairs) = 1
  /\ Cardinality(FinitePower) = 3
  /\ desk.xVals[1] = desk.xVals[2]
  /\ desk.stat.energy > 0

\* C17: when the window holds samples but no non-null energy sample and no
\* adjacent pair of non-null power samples with advancing time, energy used
\* and the cost derived from it are null, not 0.
C17_NotComputableIsNull ==
  (/\ Committed
   /\ InWindow # {}
   /\ EnergyInWindow = {}
   /\ ValidPairs = {}) =>
    desk.stat.energy = NULL /\ desk.stat.cost = NULL

\* the last response is a constant-power series: two or more samples at
\* strictly increasing (whole-second) times, one power throughout, and
\* every energy equal to the first plus power times elapsed time
ConstantPowerSeries ==
  /\ Len(desk.rows) >= 2
  /\ \A i \in 1..Len(desk.rows) :
       /\ desk.rows[i].p # NULL
       /\ desk.rows[i].p = desk.rows[1].p
       /\ desk.rows[i].e # NULL
       /\ desk.rows[i].t % 1000 = 0
       /\ (desk.rows[i].e - desk.rows[1].e) * 3600000
            = desk.rows[i].p * (desk.rows[i].t - desk.rows[1].t)
  /\ \A i \in 2..Len(desk.rows) : desk.rows[i].t > desk.rows[i - 1].t

\* energy used over the committed window with the energy column as given
EndpointEnergy ==
  EnergyUsed(desk.xVals, desk.yVals, desk.eVals,
             FirstIndex(desk.xVals, WinStartSec), LastIndex(desk.xVals, WinEndSec))

\* energy used over the committed window when no energy sample is known
TrapezoidEnergy ==
  EnergyUsed(desk.xVals, desk.yVals, [i \in 1..Len(desk.eVals) |-> NULL],
             FirstIndex(desk.xVals, WinStartSec), LastIndex(desk.xVals, WinEndSec))

\* C18: for a series of constant power sampled at two or more strictly
\* increasing times, with cumulative energy consistent with that power, the
\* endpoint-delta energy and the trapezoidal energy over the same window
\* are equal, and the energy shown for the window is that value.
C18_PathsAgree ==
  (Committed /\ ConstantPowerSeries /\ InWindow # {}) =>
    /\ EndpointEnergy = TrapezoidEnergy
    /\ WinEndSec > WinStartSec =>
          desk.stat.energy = RoundDiv(TrapezoidEnergy.n * 1000, TrapezoidEnergy.d)

\* a window over two or more samples of a constant-power series shows a
\* positive energy
C18_Witness ==
  /\ Committed
  /\ ConstantPowerSeries
  /\ Cardinality(InWindow) >= 2
  /\ Cardinality(InWindow) < Len(desk.xVals)
  /\ desk.stat.energy > 0
  /\ EndpointEnergy = TrapezoidEnergy

(***************************************************************************)
(* Properties: selection                                                   *)
(***************************************************************************)

\* C19: in every reachable state of the desktop page the committed
\* selection is either cleared (start and end both null) or has finite start
\* and end with end > start, whatever drags, mouse selections, presets,
\* resets, double-clicks and refreshes led there.
C19_SelectionValid ==
  \/ desk.selection = NoSelection
  \/ /\ desk.selection.start # NULL
     /\ desk.selection.end # NULL
     /\ desk.selection.end > desk.selection.start

\* a drag that ended where it started was committed one millisecond wide
C19_Witness ==
  /\ Committed
  /\ Len(desk.xVals) > 0
  /\ desk.selection.end = desk.selection.start + 1
  /\ ~desk.pointerSelect.active

\* C20: every selection committed from a pointer drag, a mouse selection or
\* a preset while the series is non-empty lies within the series loaded at
\* commit time: first sample <= start < end <= last sample, also when the
\* positions or the preset bounds map outside the span of the data.
C20_SelectionClamped ==
  (Committed /\ Len(desk.xVals) > 0) =>
    /\ desk.xVals[1] * 1000 <= desk.selection.start
    /\ desk.selection.start < desk.selection.end
    /\ desk.selection.end <= Last(desk.xVals) * 1000

\* a drag or mouse selection whose two edges mapped outside the two samples
\* loaded was committed as exactly the span of the samples
C20_Witness ==
  /\ Committed
  /\ desk.statusWindow = "range"
  /\ Len(desk.xVals) = 2
  /\ desk.scaleX = [min |-> desk.xVals[1] * 1000, max |-> Last(desk.xVals) * 1000]
  /\ desk.selection = [start |-> desk.xVals[1] * 1000,
                       end |-> Last(desk.xVals) * 1000]

(***************************************************************************)
(* Properties: pointer drags                                               *)
(***************************************************************************)

\* the page as a handler of a user event finds it
Touched(d) == [d EXCEPT !.lastEvent = "input"]

\* ms lies within the span of the loaded samples
InDataSpan(d, ms) ==
  /\ Len(d.xVals) > 0
  /\ ms # NULL
  /\ d.xVals[1] * 1000 <= ms
  /\ ms <= Last(d.xVals) * 1000

\* C21: a pointer drag whose start and end resolve to the same instant, at
\* any position in the data span, ends with a committed selection exactly
\* 1 ms wide, end = start + 1.
C21_TapCommitsOneMs ==
  [][\A id \in Pointers, ms \in env.plot :
       (/\ desk.pointerSelect.active
        /\ id = desk.pointerSelect.pointerId
        /\ ms = desk.pointerSelect.startMs
        /\ InDataSpan(desk, ms)
        /\ desk' = handlePointerSelectEnd(Touched(desk), id, ms))
       => /\ desk'.lastEvent = "commit"
          /\ desk'.selection = [start |-> ms, end |-> ms + 1]]_vars

\* WindowStats over the committed range of d on the series of d: count 0
\* and every number null for a window without samples, and otherwise the
\* statistics of the samples from the first at or after the start second to
\* the last at or before the end second
WindowStatsOf(d) ==
  LET inWin == {i \in 1..Len(d.xVals) :
                  /\ d.selection.start \div 1000 <= d.xVals[i]
                  /\ d.xVals[i] <= d.selection.end \div 1000}
  IN IF inWin = {}
       THEN [energy |-> NULL, cost |-> NULL, avg |-> NULL, max |-> NULL,
             min |-> NULL, count |-> 0]
       ELSE StatsOf(d.xVals, d.yVals, d.eVals, d.costPerKwh,
                    CHOOSE i \in inWin : \A j \in inWin : i <= j,
                    CHOOSE i \in inWin : \A j \in inWin : i >= j)

\* C22: after a drag end commits a selection the selector is idle
\* (pointerSelect.active is false) and the statistics shown (energy, cost,
\* avg, max, min, count) are WindowStats over the committed range on the
\* current series, never values left from an earlier selection.
C22_DragEndShowsWindowStats ==
  [][\A id \in Pointers, ms \in env.plot :
       (/\ desk.pointerSelect.active
        /\ desk' = handlePointerSelectEnd(Touched(desk), id, ms)
        /\ desk'.lastEvent = "commit")
       => /\ ~desk'.pointerSelect.active
          /\ desk'.stat = WindowStatsOf(desk')]_vars

\* C23: a pointercancel or lostpointercapture of the active pointer during
\* a drag leaves the selector idle with the drag state and the overlay
\* cleared, and changes neither the committed selection, its duration and
\* view window, nor the statistics shown.
C23_CancelDiscardsDrag ==
  [][\A id \in Pointers :
       (/\ desk.pointerSelect.active
        /\ id = desk.pointerSelect.pointerId
        /\ desk' = cancelPointerSelection(
                      [desk EXCEPT !.lastEvent = "pointercancel"], id))
       => /\ desk'.pointerSelect = NoPointerSelect
          /\ desk'.overlay = NoOverlay
          /\ desk'.selection = desk.selection
          /\ desk'.stat = desk.stat
          /\ desk'.statRange = desk.statRange
          /\ desk'.scaleX = desk.scaleX]_vars

\* a drag that began over a committed selection with statistics was
\* cancelled: the selector is idle and the selection is still there
C23_Witness ==
  /\ desk.lastEvent = "pointercancel"
  /\ desk.statusWindow = "selecting"
  /\ desk.pointerSelect = NoPointerSelect
  /\ desk.overlay = NoOverlay
  /\ desk.selection # NoSelection
  /\ desk.stat.count # NULL

\* d1 differs from d at most in the drag in progress, the hover read-out,
\* the overlay rectangle and the status label that announces the drag
OnlyDragState(d, d1) ==
  [d1 EXCEPT !.pointerSelect = d.pointerSelect, !.hover = d.hover,
             !.overlay = d.overlay, !.statusWindow = d.statusWindow] = d

\* C24: in every reachable state, whatever the pointer, the position and
\* the time it maps to, drag start and drag move update only the drag in
\* progress, the hover read-out and the overlay rectangle (drag start also
\* sets the status label to "selecting"): the committed selection and the
\* window statistics stay as they are, and a move or an end carrying a
\* pointer id other than the active one changes nothing.
C24_DragDoesNotCommit ==
  \A id \in Pointers, px \in env.px, ms \in env.plot :
    /\ OnlyDragState(desk, handlePointerSelectStart(desk, id, px, ms))
    /\ LET moved == handlePointerSelectMove(desk, id, px, ms)
       IN /\ OnlyDragState(desk, moved)
          /\ moved.statusWindow = desk.statusWindow
          /\ moved.pointerSelect = desk.pointerSelect
    /\ (desk.pointerSelect.active /\ id # desk.pointerSelect.pointerId)
         => /\ handlePointerSelectMove(desk, id, px, ms) = desk
            /\ handlePointerSelectEnd(desk, id, ms) = desk

\* a drag is moving over a committed selection: the overlay has a width, the
\* hover read-out shows a sample, the selection and its statistics stand
C24_Witness ==
  /\ desk.pointerSelect.active
  /\ desk.lastEvent = "input"
  /\ desk.overlay.width > 0
  /\ desk.hover # NoHover
  /\ desk.selection # NoSelection
  /\ desk.stat.count # NULL

(***************************************************************************)
(* Properties: presets, reset and double-click                             *)
(***************************************************************************)

\* what each preset button makes of the page d when clicked at time now
PresetClicks(d, now) ==
  { <<"last hour", selectRelativeRange(d, 60 * 60 * 1000, "last hour")>>,
    <<"last day", selectRelativeRange(d, 24 * 60 * 60 * 1000, "last day")>>,
    <<"last week", selectCalendarRange(d, WeekStart(now), now, "last week")>>,
    <<"last month", selectCalendarRange(d, EarlierDate(now), now, "last month")>>,
    <<"last year", selectCalendarRange(d, EarlierDate(now), now, "last year")>> }

\* C25: every preset (last hour, day, week, month, year) clicked while the
\* series is non-empty commits a selection for that preset, clamped to the
\* data, whatever the state before and wherever the raw bounds of the
\* preset lie relative to the span of the data.
C25_PresetSelects ==
  [][\A now \in env.now :
     \A click \in PresetClicks([desk EXCEPT !.lastEvent = "preset"], now) :
       (Len(desk.xVals) > 0 /\ desk' = click[2])
       => /\ desk'.lastEvent = "commit"
          /\ desk'.statusWindow = click[1]
          /\ desk'.selection.start # NULL
          /\ desk'.selection.end # NULL
          /\ desk.xVals[1] * 1000 <= desk'.selection.start
          /\ desk'.selection.start < desk'.selection.end
          /\ desk'.selection.end <= Last(desk.xVals) * 1000]_vars

\* C26: reset, from any state, clears the committed selection (start and
\* end null), blanks the six window statistics and the duration, sets the
\* window status to live and, when the series is non-empty, sets the view
\* window to the full span of the data.
C26_ResetClears ==
  desk.lastEvent = "reset" =>
    /\ desk.selection = NoSelection
    /\ desk.stat = NoStats
    /\ desk.statRange = NULL
    /\ desk.statusWindow = "live"
    /\ Len(desk.xVals) > 0 =>
          desk.scaleX = [min |-> desk.xVals[1] * 1000,
                         max |-> Last(desk.xVals) * 1000]

\* reset was clicked during a touch drag on a series of three samples: the
\* selection, the statistics and the overlay are cleared and the full span
\* is in view
C26_Witness ==
  /\ desk.lastEvent = "reset"
  /\ Len(desk.xVals) = 3
  /\ desk.pointerSelect.active
  /\ desk.selection = NoSelection
  /\ desk.stat = NoStats
  /\ desk.overlay = NoOverlay
  /\ desk.scaleX = AutoScale(desk.xVals)

\* C27: a double-click on the plot, in any reachable state, resets the view
\* window to the full span of the data and clears the committed selection.
C27_DblClickResets ==
  [][desk' = chartDblClick([desk EXCEPT !.lastEvent = "dblclick"])
       => /\ desk'.selection = NoSelection
          /\ Len(desk.xVals) > 0 =>
                desk'.scaleX = [min |-> desk.xVals[1] * 1000,
                                max |-> Last(desk.xVals) * 1000]]_vars


(***************************************************************************)
(* Properties: comparison                                                  *)
(***************************************************************************)

\* the value of a metric for one period: energy used, energy per day, average
\* power, cost, cost per day; NoVal when it is not available
MetricValue(stats, range, costPerKwh, m) ==
  LET kwh == StatsMember(stats, "energy_used_kwh")
      days == daysInRange(range)
  IN CASE m = "energy" -> kwh
       [] m = "dailyAvg" -> IF IsVal(kwh) /\ days > 0 THEN Rat(kwh.n, kwh.d * days) ELSE NoVal
       [] m = "powerAvg" -> StatsMember(stats, "avg_power_watts")
       [] m = "cost" -> IF IsVal(kwh) THEN RMul(kwh, costPerKwh) ELSE NoVal
       [] OTHER -> IF IsVal(kwh) /\ days > 0
                     THEN Rat(kwh.n * costPerKwh.n, kwh.d * costPerKwh.d * days) ELSE NoVal

\* B - A when both are available
AbsoluteDiff(A, B) == IF IsVal(A) /\ IsVal(B) THEN RSub(B, A) ELSE NoVal

\* (B - A) / A * 100 when A is available and not 0 and B is available
PercentDiff(A, B) ==
  IF IsVal(A) /\ A.n # 0 /\ IsVal(B)
    THEN IF A.n > 0 THEN Rat(100 * (B.n * A.d - A.n * B.d), B.d * A.n)
         ELSE Rat(100 * (A.n * B.d - B.n * A.d), B.d * (0 - A.n))
    ELSE NoVal

\* the metrics of the two periods of the comparison on display
ShownA(m) ==
  MetricValue(cmp.shown[1].statsA, cmp.shown[1].rangeA, loadCostPerKwh(cmp.storage), m)

ShownB(m) ==
  MetricValue(cmp.shown[1].statsB, cmp.shown[1].rangeB, loadCostPerKwh(cmp.storage), m)

\* what renderDiff computes for the comparison on display, and for the same
\* comparison with the two periods exchanged
ShownDiff ==
  renderDiff(cmp.shown[1].statsA, cmp.shown[1].statsB, cmp.shown[1].rangeA,
             cmp.shown[1].rangeB, loadCostPerKwh(cmp.storage))

SwappedDiff ==
  renderDiff(cmp.shown[1].statsB, cmp.shown[1].statsA, cmp.shown[1].rangeB,
             cmp.shown[1].rangeA, loadCostPerKwh(cmp.storage))

\* C28: for each of the five metrics of a finished comparison the absolute
\* difference is B - A when both values are available and null otherwise, the
\* percentage difference is (B - A) / A * 100 when A is available and not 0
\* and B is available and null otherwise, and the diff boxes show these values.
C28_DiffValues ==
  cmp.shown # <<>> =>
    /\ \A m \in Metrics :
         /\ ShownDiff[m].abs = AbsoluteDiff(ShownA(m), ShownB(m))
         /\ ShownDiff[m].pct = PercentDiff(ShownA(m), ShownB(m))
    /\ cmp.diff = DiffBoxes(ShownDiff)

\* A = 10 kWh and B = 8 kWh at no cost per kWh: energy shows a decrease of
\* 2.00 kWh (20.0%), cost a difference of 0.00 without a percentage
C28_Witness ==
  /\ cmp.shown # <<>>
  /\ cmp.diff.boxes.energy = [direction |-> "less", abs |-> 200, pct |-> 200]
  /\ cmp.diff.boxes.cost = [direction |-> "neutral", abs |-> 0, pct |-> NULL]
  /\ cmp.diff.boxes.powerAvg.pct # NULL

Sign(r) == IF r.n > 0 THEN 1 ELSE IF r.n < 0 THEN 0 - 1 ELSE 0

Opposite(dirA, dirB) ==
  \/ dirA = "more" /\ dirB = "less"
  \/ dirA = "less" /\ dirB = "more"
  \/ dirA = "neutral" /\ dirB = "neutral"

\* exchanging the periods negates every absolute difference and turns every
\* arrow round
SwapNegatesAbs ==
  \A m \in Metrics :
    /\ IsVal(SwappedDiff[m].abs) = IsVal(ShownDiff[m].abs)
    /\ IsVal(ShownDiff[m].abs) =>
         /\ SwappedDiff[m].abs = RSub(Num(0), ShownDiff[m].abs)
         /\ Opposite(DiffBoxes(ShownDiff).boxes[m].direction,
                     DiffBoxes(SwappedDiff).boxes[m].direction)
         /\ DiffBoxes(ShownDiff).boxes[m].abs = DiffBoxes(SwappedDiff).boxes[m].abs

\* C29 as stated: exchanging Period A and Period B negates the absolute
\* difference of every metric and, for every metric whose baseline is not 0
\* in both orders, flips the sign of the percentage difference.
C29_SwapFlipsPct ==
  cmp.shown # <<>> =>
    /\ SwapNegatesAbs
    /\ \A m \in Metrics :
         IsVal(ShownDiff[m].pct) /\ IsVal(SwappedDiff[m].pct) =>
           Sign(SwappedDiff[m].pct) = 0 - Sign(ShownDiff[m].pct)

\* C29 amended: exchanging Period A and Period B negates the absolute
\* difference of every metric and turns its arrow round; the sign of the
\* percentage difference flips for every metric whose two values are not 0
\* and have the same sign, and the percentage is negative in both orders
\* when the two values have opposite signs.
C29_SwapFlipsPctSameSign ==
  cmp.shown # <<>> =>
    /\ SwapNegatesAbs
    /\ \A m \in Metrics :
         IsVal(ShownDiff[m].pct) /\ IsVal(SwappedDiff[m].pct) =>
           /\ Sign(ShownA(m)) = Sign(ShownB(m)) =>
                Sign(SwappedDiff[m].pct) = 0 - Sign(ShownDiff[m].pct)
           /\ Sign(ShownA(m)) # Sign(ShownB(m)) =>
                Sign(ShownDiff[m].pct) = 0 - 1 /\ Sign(SwappedDiff[m].pct) = 0 - 1

\* a comparison of 10 kWh with 8 kWh, and one of a negative delta with 8 kWh
C29_Witness ==
  /\ cmp.shown # <<>>
  /\ ShownA("energy") = Num(0 - 2)
  /\ ShownB("energy") = Num(8)
  /\ ShownDiff.energy.abs = Num(10)
  /\ SwappedDiff.energy.abs = Num(0 - 10)
  /\ Sign(ShownDiff.energy.pct) = 0 - 1
  /\ Sign(SwappedDiff.energy.pct) = 0 - 1
  /\ ShownDiff.powerAvg.pct = Num(0)

\* the period(s) whose energy used is not available in the run on display
EnergyMissing ==
  {w \in {"A", "B"} :
     ~IsVal(StatsMember(IF w = "A" THEN cmp.shown[1].statsA ELSE cmp.shown[1].statsB,
                        "energy_used_kwh"))}

\* what renderPeriodStats shows of a period without reference to its energy
AvailableShown(stat, stats, range) ==
  /\ stat.days = daysInRange(range)
  /\ stat.powerAvg = FmtN(StatsMember(stats, "avg_power_watts"), 0)
  /\ stat.count = IF stats = <<>> THEN NULL ELSE stats[1].count

\* C30: after a compare run whose requests were answered, the warning names
\* exactly the period(s) whose energy used is unavailable and there is none
\* when both are available; no error is shown, the results are on display and
\* each period shows its days, average power and count.
C30_WarningNamesPeriods ==
  cmp # CmpClosed /\ cmp.lastEvent = "resolved" =>
    /\ cmp.error = ""
    /\ cmp.resultsVisible
    /\ ~cmp.loading
    /\ cmp.shown # <<>>
    /\ cmp.warning = (CASE EnergyMissing = {} -> ""
                        [] EnergyMissing = {"A"} -> "Period A"
                        [] EnergyMissing = {"B"} -> "Period B"
                        [] OTHER -> "either period")
    /\ AvailableShown(cmp.statA, cmp.shown[1].statsA, cmp.shown[1].rangeA)
    /\ AvailableShown(cmp.statB, cmp.shown[1].statsB, cmp.shown[1].rangeB)

\* energy missing for Period A only: the warning names it, its average power
\* and count are shown, and Period B shows its energy
C30_Witness ==
  /\ cmp.lastEvent = "resolved"
  /\ cmp.warning = "Period A"
  /\ cmp.statA.energy = NULL
  /\ cmp.statA.powerAvg = 100
  /\ cmp.statA.count = 3
  /\ cmp.statB.energy = 1000
  /\ cmp.error = ""

(***************************************************************************)
(* Properties: compare runs                                                *)
(***************************************************************************)

\* C31: right after Compare is clicked with both ranges complete, each range
\* sent to the server starts where the calendar's range starts and ends no
\* later than the moment of the click.
C31_TrimmedToNow ==
  cmp # CmpClosed /\ cmp.lastEvent = "compare" /\ cmp.pending # <<>> =>
    /\ cmp.pending[1].trimmedA.startMs = getRange(cmp.calA)[1].startMs
    /\ cmp.pending[1].trimmedB.startMs = getRange(cmp.calB)[1].startMs
    /\ cmp.pending[1].trimmedA.endMs <= cmp.clock
    /\ cmp.pending[1].trimmedB.endMs <= cmp.clock

\* C31 as the code has it: right after Compare is clicked with both ranges
\* complete, each range sent to the server starts where the calendar's range
\* starts and ends where it ends or, if that is later, with the last
\* millisecond of the day of the click.
C31_TrimmedToEndOfToday ==
  cmp # CmpClosed /\ cmp.lastEvent = "compare" /\ cmp.pending # <<>> =>
    LET endOfToday == (cmp.clock \div Day + 1) * Day - 1
        sent(cal, trimmed) ==
          /\ trimmed.startMs = cal.startDate * Day
          /\ trimmed.endMs <= endOfToday
          /\ trimmed.endMs \in {cal.endDate * Day + (Day - 1), endOfToday}
    IN sent(cmp.calA, cmp.pending[1].trimmedA)
       /\ sent(cmp.calB, cmp.pending[1].trimmedB)

\* a run was started at 01:00 with Period B ending the day after tomorrow:
\* the end sent is the end of today, after the moment of the click
C31_Witness ==
  /\ cmp # CmpClosed /\ cmp.lastEvent = "compare" /\ cmp.pending # <<>>
  /\ cmp.calB.endDate = 14
  /\ cmp.clock = 12 * Day + Hour
  /\ cmp.pending[1].trimmedB.endMs = 13 * Day - 1

\* the charts on display
Charts == cmp.uA \o cmp.uB

\* the finite values the charts on display hold for a scale
ScaleValues(k) ==
  LET of(data) ==
        CASE k = "y" -> {data.yVals[i] : i \in 1..Len(data.yVals)}
                        \cup {data.rollingAvgVals[i] : i \in 1..Len(data.rollingAvgVals)}
          [] k = "y2" -> {data.eVals[i] : i \in 1..Len(data.eVals)}
          [] OTHER -> {data.dailyEnergyVals[i] : i \in 1..Len(data.dailyEnergyVals)}
                      \cup {data.typicalDailyEnergyVals[i] :
                               i \in 1..Len(data.typicalDailyEnergyVals)}
  IN {v \in UNION {of(Charts[c].data) : c \in 1..Len(Charts)} : IsVal(v)}

Least(vals) == CHOOSE v \in vals : \A w \in vals : RLeq(v, w)

Greatest(vals) == CHOOSE v \in vals : \A w \in vals : RLeq(w, v)

\* C32: every chart on display carries the same scales; a scale is absent
\* when no series of either period has a finite value for it, and otherwise
\* runs from the least to the greatest finite value of its series over both
\* periods, with max = min + 1 exactly when the two are equal, so max > min.
C32_SharedScales ==
  cmp # CmpClosed =>
    \A c \in 1..Len(Charts) : \A k \in {"y", "y2", "y3"} :
      LET scale == Charts[c].scales[k]
          vals == ScaleValues(k)
      IN /\ Charts[c].scales = Charts[1].scales
         /\ (scale = <<>>) = (vals = {})
         /\ vals # {} =>
              /\ scale[1].min = Least(vals)
              /\ scale[1].max = IF Least(vals) = Greatest(vals)
                                  THEN Rat(Least(vals).n + Least(vals).d, Least(vals).d)
                                  ELSE Greatest(vals)
              /\ RLeq(scale[1].min, scale[1].max) /\ scale[1].min # scale[1].max

\* two charts: power from 100 W to 250 W, one meter value widened to [1, 2]
C32_Witness ==
  /\ cmp.uA # <<>>
  /\ cmp.uB # <<>>
  /\ cmp.uA[1].data # cmp.uB[1].data
  /\ cmp.uA[1].scales.y = <<[min |-> Num(100), max |-> Num(250)]>>
  /\ cmp.uA[1].scales.y2 = <<[min |-> Num(1), max |-> Num(2)]>>
  /\ cmp.uB[1].scales = cmp.uA[1].scales

\* what a run renders: the period statistics, the differences, the charts
\* and the results block
Rendered(c) == <<c.statA, c.statB, c.diff, c.uA, c.uB, c.resultsVisible, c.shown>>

\* C33: a compare run starts with its five requests outstanding together;
\* while any of them is outstanding nothing is rendered; the statistics,
\* differences and charts are rendered in the step in which the fifth
\* resolves, from the five bodies received; when one fails nothing of the run
\* is rendered and the error message is shown.
C33_AllOrNothing ==
  [][/\ cmp'.lastEvent = "compare" /\ cmp'.pending # <<>> =>
          \A r \in Requests : cmp'.pending[1].got[r] = <<>>
     /\ cmp.pending # <<>> =>
          /\ ~cmp.resultsVisible /\ cmp.uA = <<>> /\ cmp.uB = <<>>
          /\ cmp'.lastEvent = "answer" =>
               /\ Rendered(cmp') = Rendered(cmp)
               /\ cmp'.pending # <<>>
               /\ cmp'.error = ""
          /\ cmp'.lastEvent = "resolved" =>
               /\ Cardinality({r \in Requests : cmp.pending[1].got[r] = <<>>}) = 1
               /\ cmp'.resultsVisible
               /\ cmp'.shown # <<>>
               /\ \A r \in {"statsA", "statsB"} :
                    cmp.pending[1].got[r] # <<>> =>
                      cmp'.shown[1][r] = cmp.pending[1].got[r][1]
               /\ cmp'.statA = renderPeriodStats(cmp'.shown[1].statsA, cmp'.shown[1].rangeA,
                                                 loadCostPerKwh(cmp.storage))
               /\ cmp'.error = ""
          /\ cmp'.lastEvent = "rejected" =>
               /\ Rendered(cmp') = Rendered(cmp)
               /\ cmp'.error = "failed"
               /\ cmp'.pending = <<>>]_vars

\* a run has failed after an earlier run had rendered: the error is shown,
\* the results block stays hidden
C33_Witness ==
  /\ cmp.lastEvent = "rejected"
  /\ cmp.error = "failed"
  /\ ~cmp.resultsVisible
  /\ cmp.uA = <<>>
  /\ cmp.shown # <<>>

(***************************************************************************)
(* Properties: cost per kWh                                                *)
(***************************************************************************)

\* C34: once a page load has read the stored cost, and after every accepted
\* entry, the cost in effect is the stored number whenever a text is stored
\* and parses as a number, and the default only when nothing is stored or
\* the stored text does not parse.
C34_StoredCostInEffect ==
  desk.costListener =>
    desk.costPerKwh =
      IF desk.storage # <<>> /\ ParseFloat(desk.storage[1]) # NULL
        THEN ParseFloat(desk.storage[1])
        ELSE DefaultCost

(***************************************************************************)
(* Properties: refresh and selection                                       *)
(***************************************************************************)

\* C35: when the one readings fetch still in flight was issued before a
\* fetch that has already been answered, its answer does not replace the
\* series: after both have settled the series is that of the fetch issued
\* last.
C35_LastIssuedWins ==
  [][Len(desk.inflight) = 1 /\ desk.inflight[1] \in desk.overtaken
       /\ desk'.lastEvent = "fetch_ok"
       => desk'.rows = desk.rows]_vars

(***************************************************************************)
(* Properties: mobile chart                                                *)
(***************************************************************************)

\* C36: once hideChart has run the chart stays hidden until Show chart is
\* activated, whichever chart loads settle; stated for the step that follows
\* hideChart: unless it is a click on Show chart, the chart is still not
\* loaded and there is still no chart instance after it.
C36_HiddenStaysHidden ==
  [][(mob.lastEvent = "hide" /\ mob'.lastEvent # "show")
       => ~mob'.chartLoaded /\ ~mob'.u]_vars

\* the statistics d shows are WindowStats of its selection over its series;
\* for a window without samples it is enough that no number is shown
ShowsWindowStats(d) ==
  LET w == WindowStatsOf(d)
  IN IF w.count = 0
       THEN /\ d.stat.count \in {0, NULL}
            /\ \A f \in {"energy", "cost", "avg", "max", "min"} : d.stat[f] = NULL
       ELSE d.stat = w

\* C37: a step in which a poll's or a refresh's fetchReadings is answered
\* leaves the committed selection as it was, and with a selection the
\* statistics shown afterwards are WindowStats of that selection over the
\* series just loaded.
C37_RefreshKeepsSelection ==
  [][desk'.lastEvent = "fetch_ok"
       => /\ desk'.selection = desk.selection
          /\ (Truthy(desk.selection.start) /\ Truthy(desk.selection.end)
                => ShowsWindowStats(desk'))]_vars

(***************************************************************************)
(* Properties: compare button                                              *)
(***************************************************************************)

\* C38: the loading state (Compare button disabled) is on exactly while a
\* run is in flight: a run starts only from the idle state and is loading
\* from its start, every answer before the last leaves it loading, and the
\* step that ends the run, with results or with an error, clears it; no
\* second run is in flight beside it.
C38_LoadingBracketsRun ==
  [][/\ cmp'.loading <=> cmp'.pending # <<>>
     /\ Len(cmp'.pending) <= 1
     /\ (cmp'.lastEvent = "compare" /\ cmp'.pending # <<>>
           => ~cmp.loading /\ cmp.pending = <<>>)
     /\ (cmp'.lastEvent = "answer" => cmp.loading /\ cmp'.loading)
     /\ (cmp'.lastEvent \in {"resolved", "rejected"}
           => cmp.loading /\ ~cmp'.loading)]_vars

\* a second run has failed and left the button enabled, the results of the
\* first run still held
C38_Witness ==
  /\ cmp.lastEvent = "rejected"
  /\ ~cmp.loading
  /\ cmp.error = "failed"
  /\ cmp.shown # <<>>

(***************************************************************************)
(* Properties: range calendar                                              *)
(***************************************************************************)

\* a calendar with both dates set has its start on or before its end, and
\* its range runs from the first millisecond of the start day to the last
\* of the end day
OrderedRange(cal) ==
  cal.startDate # NULL /\ cal.endDate # NULL
    => /\ cal.startDate <= cal.endDate
       /\ getRange(cal) # <<>>
       /\ LET r == getRange(cal)[1]
          IN /\ r.startMs \div Day = cal.startDate /\ r.startMs % Day = 0
             /\ r.endMs \div Day = cal.endDate /\ r.endMs % Day = Day - 1
             /\ r.endMs > r.startMs

\* a day click took cal to next: from step "start" it set the start and
\* cleared the end, from step "end" it set the end beside the start held
Alternates(cal, next) ==
  next # cal
    => /\ cal.step = "start"
            => next.step = "end" /\ next.startDate # NULL /\ next.endDate = NULL
       /\ cal.step = "end"
            => /\ next.step = "start"
               /\ next.startDate # NULL /\ next.endDate # NULL
               /\ cal.startDate \in {next.startDate, next.endDate}

\* C39: day clicks alternate between setting the start, which clears the
\* end, and setting the end; whenever both dates are set the start is not
\* after the end and getRange runs from 00:00:00.000 of the start day to
\* 23:59:59.999 of the end day, with endMs > startMs.
C39_CalendarRange ==
  [][/\ Alternates(cmp.calA, cmp'.calA)
     /\ Alternates(cmp.calB, cmp'.calB)
     /\ OrderedRange(cmp.calA) /\ OrderedRange(cmp'.calA)
     /\ OrderedRange(cmp.calB) /\ OrderedRange(cmp'.calB)]_vars

\* two clicks in calendar A have set the range from day 3 to day 13 and a
\* run was started on it
C39_Witness ==
  /\ cmp.calA = [startDate |-> 3, endDate |-> 13, step |-> "start"]
  /\ cmp.rangeTextA = <<3, 13>>
  /\ cmp.pending # <<>>
  /\ cmp.pending[1].trimmedA.startMs = 3 * Day

(***************************************************************************)
(* Properties: incomplete range                                            *)
(***************************************************************************)

\* a calendar holds a start date and no end date
Incomplete(cal) == cal.startDate # NULL /\ cal.endDate = NULL

\* C40: a Compare click while either calendar holds an incomplete range
\* shows the select-a-range error and nothing else: no request is pending,
\* the loading state is off, and the statistics, differences, charts,
\* warning and visibility of the results are what they were.
C40_IncompleteRangeOnlyError ==
  [][(cmp'.lastEvent = "compare" /\ (Incomplete(cmp.calA) \/ Incomplete(cmp.calB)))
       => /\ cmp'.error = "select"
          /\ cmp'.pending = <<>> /\ ~cmp'.loading
          /\ cmp' = [cmp EXCEPT !.error = "select", !.lastEvent = "compare",
                                !.today = cmp'.today, !.clock = cmp'.clock]]_vars

\* Compare was clicked with calendar B incomplete while the results and a
\* chart of an earlier run were on screen, and they still are
C40_Witness ==
  /\ cmp.lastEvent = "compare"
  /\ Incomplete(cmp.calB)
  /\ cmp.error = "select"
  /\ cmp.resultsVisible
  /\ cmp.shown # <<>>
  /\ cmp.uA # <<>>

=============================================================================
